---- MODULE Spec2Model ----
(***************************************************************************)
(* A model of the ug-scraper add-on: the webhook delivery client           *)
(* (internal/webhook), the search fallback chain and the per-artist        *)
(* reduction (internal/scraper/search_scraper.go).                         *)
(*                                                                         *)
(* One request runs at a time: a call starts from the quiet state, runs    *)
(* step by step (every network round trip is a step whose outcome the      *)
(* environment chooses) and ends in "done"; the next call resets the       *)
(* per-request state, as the code's locals are fresh on every call.        *)
(* Times are in milliseconds.                                              *)
(***************************************************************************)
EXTENDS Integers, Sequences, FiniteSets, TLC

VARIABLES
    \* ---- webhook.Client: SendWithRetry / Send / TestWebhook ----
    spc,             \* position: "idle", "op", "backoff", "sending", "done"
    sfn,             \* the function running: "none", "SendWithRetry", "Send", "TestWebhook"
    webhookURL,      \* the destination argument
    payload,         \* the payload argument: "none", "ok" or "unserializable"
    deliveryID,      \* generateDeliveryID() of this invocation (0: none)
    attempts,        \* the closure's counter
    lastErr,         \* the closure's lastErr
    opErr,           \* what the last operation() returned to backoff.Retry
    numTries,        \* backoff.WithMaxRetries' counter
    currentInterval, \* ExponentialBackOff.currentInterval
    elapsed,         \* time since ExponentialBackOff.Reset()
    wire,            \* the POSTs handed to httpClient.Do, in order
    lastResp,        \* the answer to the last POST
    result,          \* the *DeliveryResult returned (NilResult: nil)
    retErr,          \* the error returned
    reply,           \* the reply of WebhookHandler.SendTab (NoReply: not requested)
    \* ---- scraper.SearchScraper: SearchTabs ----
    flareSolverrURL, \* SearchScraper.flareSolverrURL, fixed by NewSearchScraper
    qpc,             \* position: "idle", "api", "proxy", "direct", "done"
    opts,            \* the SearchOptions argument
    endpoint,        \* index of the API endpoint tried next (searchViaAPI's loop)
    apiLastErr,      \* searchViaAPI's lastErr
    proxyErr,        \* searchViaHTML's err of searchViaFlareSolverr
    requests,        \* the HTTP requests issued, in order
    tried,           \* the strategies attempted, in order, each with what it yielded
    searchResults,   \* the []SearchResult returned
    searchErr,       \* the error returned
    \* ---- scraper.filterTopResults, called on its own ----
    fpc,             \* position: "idle", "called", "returned"
    fIn,             \* the results argument
    fOut,            \* the slice returned
    \* ---- one call of a function of ChordParser or OnSongConverter, of a handler
    \* ---- of theirs, or of ConfigStore.persistToFile ----
    cpc,             \* position: "idle", "called", "returned"
    cfn,             \* the function called ("none": no call)
    cIn,             \* its arguments
    cOut,            \* what it returned
    \* ---- scraper.UGClient: GetTabByID ----
    tpc,             \* position: "idle", "called", "waiting", "returned"
    tabID,           \* the tabID argument
    tabWire,         \* the requests handed to httpClient.Do, in order
    tabResp,         \* what httpClient.Do answered (NoAnswer: nothing yet)
    tabOut,          \* the (*TabResult, error) returned
    deviceIDs,       \* UGClient.deviceID of the handlers' client and of the scraper's
    authWire,        \* the authentication headers sent to the catalog so far
    \* ---- config.ConfigStore and the goroutines that call it ----
    storeConfig,     \* *s.config
    file,            \* the configuration file: its state (absent, unreadable, written) and content
    persistent,      \* s.persistent
    mu,              \* s.mu: the writer holding it (0: none) and the readers holding it
    clock,           \* time.Now()
    procs,           \* per goroutine: position, operation, argument, return value, error,
                     \* and the config a Save or Clear found stored when it took the mutex
    ncalls           \* the calls made so far

sendVars == <<spc, sfn, webhookURL, payload, deliveryID, attempts, lastErr, opErr, numTries,
              currentInterval, elapsed, wire, lastResp, result, retErr, reply>>

searchVars == <<qpc, opts, endpoint, apiLastErr, proxyErr, requests, tried, searchResults, searchErr>>

filterVars == <<fpc, fIn, fOut>>

convVars == <<cpc, cfn, cIn, cOut>>

tabVars == <<tpc, tabID, tabWire, tabResp, tabOut, deviceIDs, authWire>>

storeVars == <<storeConfig, file, persistent, mu, clock, procs, ncalls>>

\* What a call of the store leaves alone.
storeFrame == <<sendVars, flareSolverrURL, searchVars, filterVars, convVars, tabVars>>

\* The components a delivery or a search leaves alone.
otherVars == <<filterVars, convVars, tabVars, storeVars>>

vars == <<sendVars, flareSolverrURL, searchVars, filterVars, convVars, tabVars, storeVars>>

-----------------------------------------------------------------------------
(* Program constants of NewClient and SendWithRetry.                       *)

maxRetries == 6

timeout == 10000

InitialInterval == 1000

MaxInterval == 16000

MaxElapsedTime == 60000

RandomizationPercent == 50

-----------------------------------------------------------------------------
(* Inputs and environment.                                                 *)

EmptyURL == ""

MalformedURL == "http://[hook"

GoodURL == "http://hook.local/in"

URLs == {EmptyURL, MalformedURL, GoodURL}

\* http.NewRequest fails exactly when url.Parse rejects the string.
ParsesAsURL(u) == u # MalformedURL

\* time.Now().UnixNano() at the moment of the call: any clock reading.
DeliveryIDs == {1001, 1002}

Statuses == {200, 299, 300, 404, 500}

NoResp == [kind |-> "none", code |-> 0]

TransportFailure == [kind |-> "transport", code |-> 0]

StatusResp(c) == [kind |-> "status", code |-> c]

Responses == {StatusResp(c) : c \in Statuses} \cup {TransportFailure}

\* How long one round trip takes: at once, or the whole per-request timeout.
Latencies == {0, timeout}

\* The payloads a caller may pass: json.Marshal fails on a payload whose
\* Timestamp has a year outside 0..9999.
Payloads == {"ok", "unserializable"}

Marshals(p) == p = "ok"

\* The fixed payload TestWebhook builds.
TestPayload == "ok"

\* A faulty guard: the empty URL is let through.
RejectsNoURL(u) == FALSE

\* The guard that opens SendWithRetry and Send.
RejectsURL(u) == u = ""

\* A faulty status check: 200 itself is taken for a failure.
NotSuccessStatusAbove200(code) == code <= 200 \/ code >= 300

\* A faulty status check: 300 is taken for a success.
NotSuccessStatusUpTo300(code) == code < 200 \/ code > 300

\* A faulty status check: only the 5xx statuses are failures.
NotSuccessStatusServerOnly(code) == code >= 500

\* The status check of the operation closure and of Send.
NotSuccessStatus(code) == code < 200 \/ code >= 300

-----------------------------------------------------------------------------
(* Errors and results.                                                     *)

Err(k, n, c) == [kind |-> k, attempt |-> n, code |-> c]

NoErr == Err("nil", 0, 0)

ErrEmptyURL == Err("webhook URL is empty", 0, 0)

ErrMarshal == Err("marshaling payload", 0, 0)

ErrCreatingRequest == Err("creating request", 0, 0)

ErrAttemptFailed(n) == Err("attempt failed", n, 0)

ErrAttemptStatus(n, c) == Err("attempt: webhook returned status", n, c)

ErrRequestFailed == Err("request failed", 0, 0)

ErrStatus(c) == Err("webhook returned status", 0, c)

NilResult == [nil |-> TRUE, success |-> FALSE, delivery_id |-> 0, attempts |-> 0,
              error |-> NoErr]

\* A faulty result: the attempt count is read before the last increment.
DeliveryResultStaleCount(err, id, n) ==
    [nil |-> FALSE, success |-> (err = NoErr), delivery_id |-> id, attempts |-> n - 1,
     error |-> err]

\* A faulty result: the error is left out of the result.
DeliveryResultNoError(err, id, n) ==
    [nil |-> FALSE, success |-> (err = NoErr), delivery_id |-> id, attempts |-> n,
     error |-> NoErr]

\* The *DeliveryResult the tail of SendWithRetry builds.
DeliveryResult(err, id, n) ==
    [nil |-> FALSE, success |-> (err = NoErr), delivery_id |-> id, attempts |-> n,
     error |-> err]

-----------------------------------------------------------------------------
(* The backoff policy SendWithRetry configures.                            *)

\* ExponentialBackOff.incrementCurrentInterval with the default multiplier 1.5.
incrementCurrentInterval(cur) ==
    IF 3 * cur >= 2 * MaxInterval THEN MaxInterval ELSE (3 * cur) \div 2

\* getRandomValueFromInterval: the two ends of the jitter range.
RandomizedIntervals(cur) ==
    LET delta == (RandomizationPercent * cur) \div 100
    IN  {cur - delta, cur + delta}

\* A faulty ceiling: one retry too many is handed out.
RetriesExhaustedLate(n) == maxRetries < n

\* WithMaxRetries.NextBackOff: Stop once maxRetries retries were handed out.
RetriesExhausted(n) == maxRetries <= n

\* ExponentialBackOff.NextBackOff: Stop when the wait would pass the budget.
OverBudget(e, next) == e + next > MaxElapsedTime

-----------------------------------------------------------------------------
(* webhook.Client                                                          *)

SendQuiet == spc \in {"idle", "done"}

\* WebhookHandler.SendTab has not been requested.
NoReply == [pc |-> "none", status |-> 0, error |-> ""]

SendIdle ==
    /\ spc = "idle"
    /\ sfn = "none"
    /\ webhookURL = EmptyURL
    /\ payload = "none"
    /\ deliveryID = 0
    /\ attempts = 0
    /\ lastErr = NoErr
    /\ opErr = NoErr
    /\ numTries = 0
    /\ currentInterval = 0
    /\ elapsed = 0
    /\ wire = <<>>
    /\ lastResp = NoResp
    /\ result = NilResult
    /\ retErr = NoErr
    /\ reply = NoReply

\* No delivery is running or remembered.
ResetSend ==
    /\ spc' = "idle"
    /\ sfn' = "none"
    /\ webhookURL' = EmptyURL
    /\ payload' = "none"
    /\ deliveryID' = 0
    /\ attempts' = 0
    /\ lastErr' = NoErr
    /\ opErr' = NoErr
    /\ numTries' = 0
    /\ currentInterval' = 0
    /\ elapsed' = 0
    /\ wire' = <<>>
    /\ lastResp' = NoResp
    /\ result' = NilResult
    /\ retErr' = NoErr
    /\ reply' = NoReply

\* The fresh locals of a call of fn(u, p).
SendFresh(fn, u, p) ==
    /\ sfn' = fn
    /\ webhookURL' = u
    /\ payload' = p
    /\ attempts' = 0
    /\ lastErr' = NoErr
    /\ opErr' = NoErr
    /\ numTries' = 0
    /\ elapsed' = 0
    /\ lastResp' = NoResp

\* A faulty request: every POST is tagged as the first attempt.
PostRequestFirstAttempt(id, n) == [id |-> id, attempt |-> 1]

\* The POST the operation closure builds: its X-Delivery-ID and X-Attempt
\* headers.
PostRequest(id, n) == [id |-> id, attempt |-> n]

\* SendWithRetry up to backoff.Retry: the URL check, the delivery id, the
\* serialization, the backoff policy.
CallSendWithRetry(u, p, id) ==
    /\ SendQuiet
    /\ SendFresh("SendWithRetry", u, p)
    /\ wire' = <<>>
    /\ IF RejectsURL(u)
       THEN /\ spc' = "done"
            /\ deliveryID' = 0
            /\ currentInterval' = 0
            /\ result' = NilResult
            /\ retErr' = ErrEmptyURL
       ELSE IF ~Marshals(p)
       THEN /\ spc' = "done"
            /\ deliveryID' = id
            /\ currentInterval' = 0
            /\ result' = NilResult
            /\ retErr' = ErrMarshal
       ELSE /\ spc' = "op"
            /\ deliveryID' = id
            /\ currentInterval' = InitialInterval
            /\ result' = NilResult
            /\ retErr' = NoErr

\* backoff.Retry returned err: the tail of SendWithRetry and, when SendTab
\* called it, the reply of SendTab.
Finish(err, n) ==
    /\ spc' = "done"
    /\ result' = DeliveryResult(err, deliveryID, n)
    /\ retErr' = err
    /\ reply' = IF reply.pc # "delivering" THEN reply
                ELSE IF err # NoErr
                THEN [pc |-> "replied", status |-> 500, error |-> "webhook delivery failed"]
                ELSE [pc |-> "replied", status |-> 200, error |-> ""]

\* One run of the operation closure, and what backoff.Retry does with a nil
\* or a permanent error.
Operation(r, d) ==
    /\ spc = "op"
    /\ sfn = "SendWithRetry"
    /\ attempts' = attempts + 1
    /\ UNCHANGED <<sfn, webhookURL, payload, deliveryID, numTries, currentInterval>>
    /\ IF ~ParsesAsURL(webhookURL)
       THEN /\ opErr' = ErrCreatingRequest
            /\ Finish(ErrCreatingRequest, attempts + 1)
            /\ UNCHANGED <<lastErr, elapsed, wire, lastResp>>
       ELSE /\ wire' = Append(wire, PostRequest(deliveryID, attempts + 1))
            /\ lastResp' = r
            /\ elapsed' = elapsed + d
            /\ IF r.kind = "transport"
               THEN /\ lastErr' = ErrAttemptFailed(attempts + 1)
                    /\ opErr' = ErrAttemptFailed(attempts + 1)
                    /\ spc' = "backoff"
                    /\ UNCHANGED <<result, retErr, reply>>
               ELSE IF NotSuccessStatus(r.code)
               THEN /\ lastErr' = ErrAttemptStatus(attempts + 1, r.code)
                    /\ opErr' = ErrAttemptStatus(attempts + 1, r.code)
                    /\ spc' = "backoff"
                    /\ UNCHANGED <<result, retErr, reply>>
               ELSE /\ opErr' = NoErr
                    /\ UNCHANGED lastErr
                    /\ Finish(NoErr, attempts + 1)

\* backoff.Retry after a retryable error: NextBackOff, then Stop or the wait.
NextBackOff ==
    /\ spc = "backoff"
    /\ UNCHANGED <<sfn, webhookURL, payload, deliveryID, attempts, lastErr, opErr, wire,
                   lastResp>>
    /\ IF RetriesExhausted(numTries)
       THEN /\ Finish(opErr, attempts)
            /\ UNCHANGED <<numTries, currentInterval, elapsed>>
       ELSE /\ numTries' = numTries + 1
            /\ currentInterval' = incrementCurrentInterval(currentInterval)
            /\ \E next \in RandomizedIntervals(currentInterval) :
                  IF OverBudget(elapsed, next)
                  THEN /\ Finish(opErr, attempts)
                       /\ UNCHANGED elapsed
                  ELSE /\ spc' = "op"
                       /\ elapsed' = elapsed + next
                       /\ UNCHANGED <<result, retErr, reply>>

\* A faulty GetURL: the URL of a disabled configuration is handed out.
GetURLIgnoresEnabled(config) == IF ~config.nil THEN config.URL ELSE ""

\* ConfigStore.GetURL on the stored config.
GetURL(config) == IF ~config.nil /\ config.Enabled THEN config.URL ELSE ""

\* WebhookHandler.SendTab up to backoff.Retry: the request is validated, the
\* URL is asked of the store, and SendWithRetry is called with it and a
\* payload whose Timestamp is time.Now().
SendTab(req, id) ==
    /\ SendQuiet
    /\ IF req.Title = "" \/ req.Content = "" \/ GetURL(storeConfig) = ""
       THEN /\ SendFresh("none", EmptyURL, "none")
            /\ spc' = "idle"
            /\ deliveryID' = 0
            /\ currentInterval' = 0
            /\ wire' = <<>>
            /\ result' = NilResult
            /\ retErr' = NoErr
            /\ reply' = [pc |-> "replied", status |-> 400,
                         error |-> IF req.Title = "" \/ req.Content = ""
                                   THEN "title and content are required"
                                   ELSE "webhook not configured or not enabled"]
       ELSE /\ CallSendWithRetry(GetURL(storeConfig), "ok", id)
            /\ reply' = [pc |-> "delivering", status |-> 0, error |-> ""]

\* Send up to httpClient.Do; TestWebhook calls it with its fixed payload.
CallSend(fn, u, p) ==
    /\ SendQuiet
    /\ SendFresh(fn, u, p)
    /\ reply' = NoReply
    /\ deliveryID' = 0
    /\ currentInterval' = 0
    /\ result' = NilResult
    /\ IF RejectsURL(u)
       THEN spc' = "done" /\ wire' = <<>> /\ retErr' = ErrEmptyURL
       ELSE IF ~Marshals(p)
       THEN spc' = "done" /\ wire' = <<>> /\ retErr' = ErrMarshal
       ELSE IF ~ParsesAsURL(u)
       THEN spc' = "done" /\ wire' = <<>> /\ retErr' = ErrCreatingRequest
       ELSE spc' = "sending" /\ wire' = <<[id |-> 0, attempt |-> 0]>> /\ retErr' = NoErr

\* Send from the answer of httpClient.Do on.
SendResponse(r, d) ==
    /\ spc = "sending"
    /\ spc' = "done"
    /\ lastResp' = r
    /\ elapsed' = elapsed + d
    /\ retErr' = IF r.kind = "transport" THEN ErrRequestFailed
                 ELSE IF NotSuccessStatus(r.code) THEN ErrStatus(r.code)
                 ELSE NoErr
    /\ UNCHANGED <<sfn, webhookURL, payload, deliveryID, attempts, lastErr, opErr,
                   numTries, currentInterval, wire, result, reply>>

-----------------------------------------------------------------------------
(* scraper: SearchResult and the per-artist reduction.                     *)

\* A SearchResult, with the fields the search engine reads; ratings in tenths.
Hit(i, a, t, r) == [id |-> i, artist |-> a, type |-> t, rating |-> r]

\* The zero value a missing map entry reads as.
ZeroResult == Hit("", "", "", 0)

\* strings.ToLower on the spellings the model uses.
ToLower(s) ==
    CASE s = "Chords" -> "chords"
      [] s = "CHORDS" -> "chords"
      [] s = "Tab" -> "tab"
      [] s = "Abba" -> "abba"
      [] s = "ABBA" -> "abba"
      [] s = "Oasis" -> "oasis"
      [] s = "Unknown" -> "unknown"
      [] OTHER -> s

\* A faulty key: the empty artist keeps a bucket of its own.
ArtistKeyAsWritten(r) == r.artist

\* The key filterTopResults files r under.
ArtistKey(r) == IF r.artist = "" THEN "Unknown" ELSE r.artist

\* A faulty chain: the rating alone decides.
DisplacesByRating(r, current, exists) == ~exists \/ r.rating > current.rating

\* The if/else-if chain of filterTopResults: whether r replaces the entry.
Displaces(r, current, exists) ==
    LET isChords == ToLower(r.type) = "chords"
        currentIsChords == ToLower(current.type) = "chords"
    IN  \/ ~exists
        \/ isChords /\ ~currentIsChords
        \/ isChords /\ currentIsChords /\ r.rating > current.rating
        \/ ~isChords /\ ~currentIsChords /\ r.rating > current.rating

\* The loop of filterTopResults over results, from the map top.
RECURSIVE topResults(_, _)
topResults(results, top) ==
    IF results = <<>> THEN top
    ELSE LET r == Head(results)
             artist == ArtistKey(r)
             exists == artist \in DOMAIN top
             current == IF exists THEN top[artist] ELSE ZeroResult
         IN  topResults(Tail(results),
                        IF Displaces(r, current, exists)
                        THEN [a \in DOMAIN top \cup {artist} |->
                                 IF a = artist THEN r ELSE top[a]]
                        ELSE top)

EmptyMap == [a \in {} |-> ZeroResult]

\* The slices a range over the map m can build: Go fixes no iteration order.
MapValuesInAnyOrder(m) ==
    LET n == Cardinality(DOMAIN m)
    IN  {[i \in 1..n |-> m[f[i]]] :
            f \in {g \in [1..n -> DOMAIN m] : \A i, j \in 1..n : i # j => g[i] # g[j]}}

\* filterTopResults: the slices it may return for results.
filterTopResults(results) == MapValuesInAnyOrder(topResults(results, EmptyMap))

-----------------------------------------------------------------------------
(* scraper: what the catalog, the proxy and the search page may answer.    *)

NoProxy == ""

ProxyURL == "http://flaresolverr:8191"

Queries == {"", "wonderwall"}

\* opts.Type is appended to the API URL unescaped: a control character in it
\* makes http.NewRequest fail.
SearchTypes == {"", "chords", "chords\n"}

BuildsAPIRequest(o) == o.type # "chords\n"

ApiLists ==
    LET hChords == Hit("101", "Abba", "Chords", 30)
        hTab == Hit("102", "Abba", "Tab", 49)
        hOther == Hit("101", "Oasis", "Chords", 49)
        hNoID == Hit("", "", "", 0)
    IN  {<<>>, <<hChords>>, <<hNoID>>, <<hTab, hChords>>, <<hChords, hOther>>,
         <<hNoID, hTab>>}

\* A decoded API body: its "tabs" array and its "data.results" array.
ApiBodies == [tabs : ApiLists, results : ApiLists]

\* A js-store list: a list of the API without an entry that has no id.
StoreLists == {l \in ApiLists : \A i \in 1..Len(l) : l[i].id # ""}

AnchorLists ==
    LET aChords == Hit("101", "Abba", "Chords", 0)
        aTab == Hit("102", "Abba", "Tab", 0)
        aOasis == Hit("103", "Oasis", "Chords", 0)
        \* The id of aChords under another artist's path.
        aSameID == Hit("101", "Oasis", "Chords", 0)
    IN  {<<>>, <<aChords>>, <<aChords, aChords>>, <<aChords, aTab>>,
         <<aChords, aOasis>>, <<aChords, aSameID>>}

\* A fetched search page: the js-store container (absent, holding malformed
\* JSON, or holding store.page.data.results) and the tab anchors in it.
HtmlBodies ==
    [store : {"absent", "malformed"}, storeResults : {<<>>}, anchors : AnchorLists]
    \cup [store : {"present"}, storeResults : StoreLists, anchors : AnchorLists]

EndpointNames == <<"suggest", "tab-search", "app-search">>

ErrEmptyQuery == Err("search query cannot be empty", 0, 0)

ErrNoResults == Err("no results found", 0, 0)

ErrMakingRequest == Err("making request", 0, 0)

ErrReadingResponse == Err("reading response", 0, 0)

\* parseAPIResults: the "tabs" shape keeps the entries with an id; the
\* "data.results" shape is read only when that gave nothing.
parseAPIResults(body) ==
    LET first == SelectSeq(body.tabs, LAMBDA t : t.id # "")
    IN  IF Len(first) = 0 THEN body.results ELSE first

\* A faulty test: a single result is not enough.
AcceptsSeveral(got) == got.err = NoErr /\ Len(got.results) > 1

\* The test SearchTabs, searchViaAPI and searchViaHTML accept a strategy's
\* answer with.
Accepts(got) == got.err = NoErr /\ Len(got.results) > 0

\* trySearchEndpoint from the answer on: [results, err].
trySearchEndpoint(o, answer) ==
    IF ~BuildsAPIRequest(o)
    THEN [results |-> <<>>, err |-> Err("creating API request", 0, 0)]
    ELSE IF answer.kind = "transport"
    THEN [results |-> <<>>, err |-> Err("API request failed", 0, 0)]
    ELSE IF answer.code # 200
    THEN [results |-> <<>>, err |-> Err("API returned status", 0, answer.code)]
    ELSE IF answer.kind = "undecodable"
    THEN [results |-> <<>>, err |-> Err("decoding API response", 0, 0)]
    ELSE IF Len(parseAPIResults(answer.body)) = 0
    THEN [results |-> <<>>, err |-> Err("no results found in API response", 0, 0)]
    ELSE [results |-> parseAPIResults(answer.body), err |-> NoErr]

NoBody == [tabs |-> <<>>, results |-> <<>>]

ApiAnswers ==
    {[kind |-> "transport", code |-> 0, body |-> NoBody]}
    \cup {[kind |-> "status", code |-> c, body |-> NoBody] : c \in {204, 403, 500}}
    \cup {[kind |-> "undecodable", code |-> 200, body |-> NoBody]}
    \cup {[kind |-> "json", code |-> 200, body |-> b] : b \in ApiBodies}

\* parseHTMLWithRegex: the [results, err] it may return.
parseHTMLWithRegex(html) ==
    IF html.store = "absent" THEN {[results |-> <<>>, err |-> NoErr]}
    ELSE IF html.store = "malformed"
    THEN {[results |-> <<>>, err |-> Err("failed to parse JSON", 0, 0)]}
    ELSE {[results |-> f, err |-> NoErr] : f \in filterTopResults(html.storeResults)}

\* A faulty parseReactDOM: the harvested list is returned as it is.
RECURSIVE uniqueSkipped(_, _)
uniqueSkipped(results, seen) == results

\* The duplicate removal that ends parseReactDOM.
RECURSIVE unique(_, _)
unique(results, seen) ==
    IF results = <<>> THEN <<>>
    ELSE IF Head(results).id \in seen THEN unique(Tail(results), seen)
    ELSE <<Head(results)>> \o unique(Tail(results), seen \cup {Head(results).id})

parseReactDOM(html) == unique(html.anchors, {})

\* A faulty searchViaHTML: the extraction's error is returned instead of
\* falling back to the DOM.
ParseBodyNoFallback(html) ==
    {IF re.err # NoErr
     THEN [results |-> <<>>, err |-> re.err,
           tried |-> <<[step |-> "embedded-json", yielded |-> FALSE]>>]
     ELSE IF Len(re.results) > 0
     THEN [results |-> re.results, err |-> NoErr,
           tried |-> <<[step |-> "embedded-json", yielded |-> TRUE]>>]
     ELSE LET dom == parseReactDOM(html)
          IN  [results |-> dom,
               err |-> IF Len(dom) = 0 THEN ErrNoResults ELSE NoErr,
               tried |-> <<[step |-> "embedded-json", yielded |-> FALSE],
                           [step |-> "dom", yielded |-> Len(dom) > 0]>>]
     : re \in parseHTMLWithRegex(html)}

\* searchViaHTML from the fetched body on: what it may return, with the
\* strategies it went through.
ParseBody(html) ==
    {IF Accepts(re)
     THEN [results |-> re.results, err |-> NoErr,
           tried |-> <<[step |-> "embedded-json", yielded |-> TRUE]>>]
     ELSE LET dom == parseReactDOM(html)
          IN  [results |-> dom,
               err |-> IF Len(dom) = 0 THEN ErrNoResults ELSE NoErr,
               tried |-> <<[step |-> "embedded-json", yielded |-> FALSE],
                           [step |-> "dom", yielded |-> Len(dom) > 0]>>]
     : re \in parseHTMLWithRegex(html)}

-----------------------------------------------------------------------------
(* scraper.SearchScraper.SearchTabs                                        *)

NoOpts == [query |-> "", type |-> ""]

SearchQuiet == qpc \in {"idle", "done"}

SearchIdle ==
    /\ qpc = "idle"
    /\ opts = NoOpts
    /\ endpoint = 0
    /\ apiLastErr = NoErr
    /\ proxyErr = NoErr
    /\ requests = <<>>
    /\ tried = <<>>
    /\ searchResults = <<>>
    /\ searchErr = NoErr

\* No search is running or remembered.
ResetSearch ==
    /\ qpc' = "idle"
    /\ opts' = NoOpts
    /\ endpoint' = 0
    /\ apiLastErr' = NoErr
    /\ proxyErr' = NoErr
    /\ requests' = <<>>
    /\ tried' = <<>>
    /\ searchResults' = <<>>
    /\ searchErr' = NoErr

\* SearchTabs up to the first API request.
CallSearchTabs(o) ==
    /\ SearchQuiet
    /\ opts' = o
    /\ apiLastErr' = NoErr
    /\ proxyErr' = NoErr
    /\ requests' = <<>>
    /\ tried' = <<>>
    /\ searchResults' = <<>>
    /\ IF o.query = ""
       THEN qpc' = "done" /\ endpoint' = 0 /\ searchErr' = ErrEmptyQuery
       ELSE qpc' = "api" /\ endpoint' = 1 /\ searchErr' = NoErr

\* One turn of searchViaAPI's loop; on a result SearchTabs returns, after the
\* last endpoint it falls back to searchViaHTML.
TryEndpoint(answer) ==
    /\ qpc = "api"
    /\ LET got == trySearchEndpoint(opts, answer)
           name == EndpointNames[endpoint]
       IN  /\ requests' = IF BuildsAPIRequest(opts) THEN Append(requests, name)
                          ELSE requests
           /\ tried' = Append(tried, [step |-> name, yielded |-> Len(got.results) > 0])
           /\ IF Accepts(got)
              THEN /\ qpc' = "done"
                   /\ searchResults' \in filterTopResults(got.results)
                   /\ searchErr' = NoErr
                   /\ UNCHANGED <<endpoint, apiLastErr>>
              ELSE /\ apiLastErr' = got.err
                   /\ UNCHANGED <<searchResults, searchErr>>
                   /\ IF endpoint < Len(EndpointNames)
                      THEN qpc' = "api" /\ endpoint' = endpoint + 1
                      ELSE /\ endpoint' = endpoint
                           /\ qpc' = IF flareSolverrURL # NoProxy THEN "proxy" ELSE "direct"
    /\ UNCHANGED <<opts, proxyErr>>

\* The tail of searchViaHTML and of SearchTabs once the page is fetched.
ReturnParsed(html) ==
    \E p \in ParseBody(html) :
        /\ qpc' = "done"
        /\ tried' = tried \o p.tried
        /\ searchErr' = p.err
        /\ IF p.err = NoErr
           THEN searchResults' \in filterTopResults(p.results)
           ELSE searchResults' = <<>>

ProxyAnswers ==
    {[kind |-> k, html |-> CHOOSE h \in HtmlBodies : TRUE] :
        k \in {"transport", "undecodable", "error"}}
    \cup {[kind |-> "ok", html |-> h] : h \in HtmlBodies}

\* A faulty searchViaHTML: the error of the proxy is returned.
ProxyFetchAborts(answer) ==
    /\ qpc = "proxy"
    /\ requests' = Append(requests, "proxy")
    /\ proxyErr' = IF answer.kind = "ok" THEN NoErr ELSE Err(answer.kind, 0, 0)
    /\ IF answer.kind = "ok"
       THEN ReturnParsed(answer.html)
       ELSE /\ qpc' = "done"
            /\ searchErr' = Err(answer.kind, 0, 0)
            /\ UNCHANGED <<tried, searchResults>>
    /\ UNCHANGED <<opts, endpoint, apiLastErr>>

\* searchViaFlareSolverr and what searchViaHTML does with its answer.
ProxyFetch(answer) ==
    /\ qpc = "proxy"
    /\ requests' = Append(requests, "proxy")
    /\ proxyErr' = CASE answer.kind = "ok" -> NoErr
                    [] answer.kind = "transport" -> Err("FlareSolverr request failed", 0, 0)
                    [] answer.kind = "undecodable" ->
                          Err("decoding FlareSolverr response", 0, 0)
                    [] answer.kind = "error" -> Err("FlareSolverr returned status", 0, 0)
    /\ IF answer.kind = "ok"
       THEN ReturnParsed(answer.html)
       ELSE /\ qpc' = "direct"
            /\ UNCHANGED <<tried, searchResults, searchErr>>
    /\ UNCHANGED <<opts, endpoint, apiLastErr>>

DirectAnswers ==
    {[kind |-> k, html |-> CHOOSE h \in HtmlBodies : TRUE] : k \in {"transport", "unreadable"}}
    \cup {[kind |-> "page", html |-> h] : h \in HtmlBodies}

\* The direct GET of searchViaHTML and what follows it.
DirectFetch(answer) ==
    /\ qpc = "direct"
    /\ requests' = Append(requests, "direct")
    /\ IF answer.kind = "page"
       THEN ReturnParsed(answer.html)
       ELSE /\ qpc' = "done"
            /\ searchErr' = IF answer.kind = "transport" THEN ErrMakingRequest
                            ELSE ErrReadingResponse
            /\ searchResults' = <<>>
            /\ UNCHANGED tried
    /\ UNCHANGED <<opts, endpoint, apiLastErr, proxyErr>>

-----------------------------------------------------------------------------
(* The specification: one request at a time.                               *)

Quiet == SendQuiet /\ SearchQuiet

NextSend ==
    \/ \E u \in URLs, p \in Payloads, id \in DeliveryIDs :
          Quiet /\ CallSendWithRetry(u, p, id) /\ reply' = NoReply /\ ResetSearch
          /\ UNCHANGED <<flareSolverrURL, otherVars>>
    \/ \E r \in Responses, d \in Latencies :
          Operation(r, d) /\ UNCHANGED <<flareSolverrURL, searchVars, otherVars>>
    \/ NextBackOff /\ UNCHANGED <<flareSolverrURL, searchVars, otherVars>>
    \/ \E u \in URLs, p \in Payloads :
          Quiet /\ CallSend("Send", u, p) /\ ResetSearch
          /\ UNCHANGED <<flareSolverrURL, otherVars>>
    \/ \E u \in URLs :
          Quiet /\ CallSend("TestWebhook", u, TestPayload) /\ ResetSearch
          /\ UNCHANGED <<flareSolverrURL, otherVars>>
    \/ \E r \in Responses, d \in Latencies :
          SendResponse(r, d) /\ UNCHANGED <<flareSolverrURL, searchVars, otherVars>>

NextSearch ==
    \/ \E q \in Queries, t \in SearchTypes :
          Quiet /\ CallSearchTabs([query |-> q, type |-> t]) /\ ResetSend
          /\ UNCHANGED <<flareSolverrURL, otherVars>>
    \/ \E a \in ApiAnswers : TryEndpoint(a) /\ UNCHANGED <<flareSolverrURL, sendVars, otherVars>>
    \/ \E a \in ProxyAnswers : ProxyFetch(a) /\ UNCHANGED <<flareSolverrURL, sendVars, otherVars>>
    \/ \E a \in DirectAnswers : DirectFetch(a) /\ UNCHANGED <<flareSolverrURL, sendVars, otherVars>>

FilterIdle == fpc = "idle" /\ fIn = <<>> /\ fOut = <<>>

ConvIdle == cpc = "idle" /\ cfn = "none" /\ cIn = <<>> /\ cOut = <<>>

TabIdle ==
    /\ tpc = "idle" /\ tabID = <<>> /\ tabWire = <<>> /\ tabResp = [kind |-> "none"]
    /\ tabOut = <<>>
    /\ deviceIDs = [handlers |-> "", scraper |-> ""] /\ authWire = {}

\* &WebhookConfig{}.
ZeroConfig == [nil |-> FALSE, URL |-> "", Enabled |-> FALSE, CreatedAt |-> 0, UpdatedAt |-> 0]

StoreIdle ==
    /\ storeConfig = ZeroConfig /\ persistent = FALSE
    /\ file = [state |-> "absent", config |-> ZeroConfig]
    /\ mu = [writer |-> 0, readers |-> {}] /\ clock = 0 /\ procs = <<>> /\ ncalls = 0

Init ==
    /\ SendIdle
    /\ SearchIdle
    /\ FilterIdle
    /\ ConvIdle
    /\ TabIdle
    /\ StoreIdle
    /\ flareSolverrURL \in {NoProxy, ProxyURL}

Next == NextSend \/ NextSearch

Spec == Init /\ [][Next]_vars

\* A round trip ends (the HTTP client's timeout sees to it) and a backoff
\* timer fires: a running request is not left waiting forever.
Running ==
    \/ \E r \in Responses, d \in Latencies :
          Operation(r, d) /\ UNCHANGED <<flareSolverrURL, searchVars, otherVars>>
    \/ NextBackOff /\ UNCHANGED <<flareSolverrURL, searchVars, otherVars>>
    \/ \E r \in Responses, d \in Latencies :
          SendResponse(r, d) /\ UNCHANGED <<flareSolverrURL, searchVars, otherVars>>

SpecFair == Spec /\ WF_vars(Running)

\* The handlers of /webhook/send on a store that holds the empty config, a
\* config SaveConfig stored or a config NewConfigStore loaded from the file.
InitSendTab ==
    /\ SendIdle /\ SearchIdle /\ FilterIdle /\ ConvIdle /\ TabIdle
    /\ flareSolverrURL = NoProxy
    /\ \E u \in URLs, e \in BOOLEAN, t \in {0, 1} :
          storeConfig = [nil |-> FALSE, URL |-> u, Enabled |-> e, CreatedAt |-> t,
                         UpdatedAt |-> t]
    /\ persistent = FALSE
    /\ file = [state |-> "absent", config |-> ZeroConfig]
    /\ mu = [writer |-> 0, readers |-> {}] /\ clock = 1 /\ procs = <<>> /\ ncalls = 0

SpecSendTab ==
    InitSendTab
    /\ [][\/ \E t \in {"", "Song"}, c \in {"", "[G]la"}, id \in DeliveryIDs :
               SendTab([Title |-> t, Content |-> c], id)
               /\ UNCHANGED <<flareSolverrURL, searchVars, otherVars>>
          \/ \E r \in Responses, d \in Latencies :
               Operation(r, d) /\ UNCHANGED <<flareSolverrURL, searchVars, otherVars>>
          \/ NextBackOff /\ UNCHANGED <<flareSolverrURL, searchVars, otherVars>>]_vars

-----------------------------------------------------------------------------
(* filterTopResults on every short list of results.                        *)

MaxLen == 2

FilterHits ==
    {Hit(i, a, t, r) : i \in {"101", "102"}, a \in {"", "Unknown", "Abba", "ABBA"},
                       t \in {"Chords", "CHORDS", "Tab"}, r \in {30, 49}}

FilterInputs == UNION {[1..n -> FilterHits] : n \in 0..MaxLen}

InitFilter ==
    /\ SendIdle
    /\ SearchIdle
    /\ ConvIdle
    /\ TabIdle
    /\ StoreIdle
    /\ flareSolverrURL = NoProxy
    /\ fpc = "called"
    /\ fIn \in FilterInputs
    /\ fOut = <<>>

ApplyFilter ==
    /\ fpc = "called"
    /\ fpc' = "returned"
    /\ fOut' \in filterTopResults(fIn)
    /\ UNCHANGED <<fIn, sendVars, flareSolverrURL, searchVars, convVars, tabVars, storeVars>>

NextFilter == ApplyFilter

SpecFilter == InitFilter /\ [][NextFilter]_vars

-----------------------------------------------------------------------------
(* converter: a Go string is the sequence of its characters.               *)

\* strings.ToLower on the model's alphabet.
stringsToLower(s) ==
    LET upper == <<"A", "B", "C", "D", "E", "F", "G", "H", "I", "J", "K", "L", "M",
                   "N", "O", "P", "Q", "R", "S", "T", "U", "V", "W", "X", "Y", "Z">>
        lower == <<"a", "b", "c", "d", "e", "f", "g", "h", "i", "j", "k", "l", "m",
                   "n", "o", "p", "q", "r", "s", "t", "u", "v", "w", "x", "y", "z">>
        toLowerChar(c) == IF \E k \in 1..26 : upper[k] = c
                          THEN lower[CHOOSE k \in 1..26 : upper[k] = c]
                          ELSE c
    IN  [i \in 1..Len(s) |-> toLowerChar(s[i])]

\* sub occurs in s at position i.
HasPrefixAt(s, sub, i) ==
    /\ i + Len(sub) - 1 <= Len(s)
    /\ \A k \in 1..Len(sub) : s[i + k - 1] = sub[k]

\* strings.Index, counting from 1: 0 when sub does not occur.
stringsIndex(s, sub) ==
    IF \E i \in 1..(Len(s) + 1) : HasPrefixAt(s, sub, i)
    THEN CHOOSE i \in 1..(Len(s) + 1) :
            HasPrefixAt(s, sub, i) /\ \A j \in 1..(i - 1) : ~HasPrefixAt(s, sub, j)
    ELSE 0

stringsContains(s, sub) == stringsIndex(s, sub) # 0

\* strings.ReplaceAll for a non-empty old.
RECURSIVE stringsReplaceAll(_, _, _)
stringsReplaceAll(s, old, new) ==
    IF s = <<>> THEN <<>>
    ELSE IF HasPrefixAt(s, old, 1)
    THEN new \o stringsReplaceAll(SubSeq(s, Len(old) + 1, Len(s)), old, new)
    ELSE <<Head(s)>> \o stringsReplaceAll(Tail(s), old, new)

\* The characters unicode.IsSpace accepts, on the model's alphabet.
WhiteSpace == {" ", "\t", "\n", "\r"}

Digits == {"0", "1", "2", "3", "4", "5", "6", "7", "8", "9"}

\* The length of the longest prefix of s whose characters are all in chars
\* (member = TRUE) or all outside chars (member = FALSE): what a greedy
\* character class (\s*, [0-9]*, [^\n]*) takes at the head of s.
PrefixLen(s, chars, member) ==
    LET stops == {i \in 1..Len(s) : (s[i] \in chars) # member}
    IN  IF stops = {} THEN Len(s)
        ELSE (CHOOSE i \in stops : \A j \in stops : i <= j) - 1

stringsTrimSpace(s) ==
    LET kept == {i \in 1..Len(s) : s[i] \notin WhiteSpace}
    IN  IF kept = {} THEN <<>>
        ELSE SubSeq(s, CHOOSE i \in kept : \A j \in kept : i <= j,
                       CHOOSE i \in kept : \A j \in kept : j <= i)

\* strings.Split(s, "\n").
RECURSIVE stringsSplit(_)
stringsSplit(s) ==
    LET n == PrefixLen(s, {"\n"}, FALSE) + 1
    IN  IF n > Len(s) THEN <<s>>
        ELSE <<SubSeq(s, 1, n - 1)>> \o stringsSplit(SubSeq(s, n + 1, Len(s)))

\* strings.Join(lines, "\n").
RECURSIVE stringsJoin(_)
stringsJoin(lines) ==
    IF lines = <<>> THEN <<>>
    ELSE IF Len(lines) = 1 THEN lines[1]
    ELSE lines[1] \o <<"\n">> \o stringsJoin(Tail(lines))

\* strings.Fields.
RECURSIVE stringsFields(_)
stringsFields(s) ==
    LET t == SubSeq(s, PrefixLen(s, WhiteSpace, TRUE) + 1, Len(s))
        n == PrefixLen(t, WhiteSpace, FALSE)
    IN  IF t = <<>> THEN <<>>
        ELSE <<SubSeq(t, 1, n)>> \o stringsFields(SubSeq(t, n + 1, Len(t)))

\* fmt.Sprintf("%d", n) for n >= 0.
RECURSIVE Itoa(_)
Itoa(n) ==
    LET Digit(d) == <<"0", "1", "2", "3", "4", "5", "6", "7", "8", "9">>[d + 1]
    IN  IF n < 10 THEN <<Digit(n)>> ELSE Itoa(n \div 10) \o <<Digit(n % 10)>>

-----------------------------------------------------------------------------
(* converter.ChordParser: DetectKey and ExtractChords                      *)

validRoots ==
    {<<"A">>, <<"A", "#">>, <<"A", "b">>, <<"B">>, <<"B", "b">>, <<"C">>, <<"C", "#">>,
     <<"D">>, <<"D", "#">>, <<"D", "b">>, <<"E">>, <<"E", "b">>, <<"F">>, <<"F", "#">>,
     <<"G">>, <<"G", "#">>, <<"G", "b">>}

\* A faulty extractRootNote: the root is returned without the vocabulary check.
extractRootNoteUnchecked(chord) ==
    IF Len(chord) = 0 THEN <<>>
    ELSE IF Len(chord) > 1 /\ chord[2] \in {"#", "b"} THEN <<chord[1], chord[2]>>
    ELSE <<chord[1]>>

extractRootNote(chord) ==
    IF Len(chord) = 0 THEN <<>>
    ELSE LET root == IF Len(chord) > 1 /\ chord[2] \in {"#", "b"}
                     THEN <<chord[1], chord[2]>>
                     ELSE <<chord[1]>>
         IN  IF root \in validRoots THEN root ELSE <<>>

\* A faulty DetectKey: an equal split between minor and other chords on the
\* root gives the minor key.
DetectKeyTieIsMinor(chords) ==
    LET roots == {extractRootNote(chords[i]) : i \in 1..Len(chords)} \ {<<>>}
        rootCounts(r) == Cardinality({i \in 1..Len(chords) :
                                         extractRootNote(chords[i]) = r})
        mostCommon == IF roots = {} THEN {<<>>}
                      ELSE {r \in roots : \A o \in roots : rootCounts(o) <= rootCounts(r)}
        minorKey(rootNote) ==
            LET same == {i \in 1..Len(chords) : extractRootNote(chords[i]) = rootNote}
                minor == {i \in same :
                             /\ stringsContains(stringsToLower(chords[i]), <<"m">>)
                             /\ ~stringsContains(stringsToLower(chords[i]),
                                                 <<"m", "a", "j">>)}
            IN  Cardinality(minor) >= Cardinality(same \ minor)
    IN  IF Len(chords) = 0 THEN {<<>>}
        ELSE {IF m # <<>> /\ minorKey(m) THEN m \o <<"m">> ELSE m : m \in mostCommon}

\* DetectKey: the keys it may return; the range over rootCounts settles a tie
\* between roots in the order the map happens to give.
DetectKey(chords) ==
    LET roots == {extractRootNote(chords[i]) : i \in 1..Len(chords)} \ {<<>>}
        rootCounts(r) == Cardinality({i \in 1..Len(chords) :
                                         extractRootNote(chords[i]) = r})
        mostCommon == IF roots = {} THEN {<<>>}
                      ELSE {r \in roots : \A o \in roots : rootCounts(o) <= rootCounts(r)}
        analyzeChordQuality(rootNote) ==
            IF rootNote = <<>> THEN "major"
            ELSE LET same == {i \in 1..Len(chords) : extractRootNote(chords[i]) = rootNote}
                     minor == {i \in same :
                                  /\ stringsContains(stringsToLower(chords[i]), <<"m">>)
                                  /\ ~stringsContains(stringsToLower(chords[i]),
                                                      <<"m", "a", "j">>)}
                 IN  IF Cardinality(minor) > Cardinality(same \ minor)
                     THEN "minor" ELSE "major"
    IN  IF Len(chords) = 0 THEN {<<>>}
        ELSE {IF analyzeChordQuality(m) = "minor" /\ m # <<>>
              THEN m \o <<"m">> ELSE m : m \in mostCommon}

\* The capture group of chordRegex: s is in
\* [A-G][#b]?(maj|min|m|sus|aug|dim|add|[0-9])*.
MatchSpelling(s) ==
    LET qualities == {<<"m", "a", "j">>, <<"m", "i", "n">>, <<"m">>, <<"s", "u", "s">>,
                      <<"a", "u", "g">>, <<"d", "i", "m">>, <<"a", "d", "d">>}
        RECURSIVE MatchQualities(_)
        MatchQualities(r) ==
            \/ r = <<>>
            \/ r[1] \in Digits /\ MatchQualities(Tail(r))
            \/ \E q \in qualities :
                  HasPrefixAt(r, q, 1) /\ MatchQualities(SubSeq(r, Len(q) + 1, Len(r)))
    IN  /\ s # <<>>
        /\ s[1] \in {"A", "B", "C", "D", "E", "F", "G"}
        /\ \/ MatchQualities(Tail(s))
           \/ Len(s) >= 2 /\ s[2] \in {"#", "b"} /\ MatchQualities(SubSeq(s, 3, Len(s)))

chOpen == <<"[", "c", "h", "]">>

chClose == <<"[", "/", "c", "h", "]">>

\* ExtractChords: the capture of every match of chordRegex, found from left to
\* right without overlap.
ExtractChords(content) ==
    LET \* The position of the closing tag of the annotation that opens at i, or
        \* 0 when chordRegex does not match at i.
        ChordRegexAt(i) ==
            IF ~HasPrefixAt(content, chOpen, i) THEN 0
            ELSE LET from == i + Len(chOpen)
                     e == from + PrefixLen(SubSeq(content, from, Len(content)),
                                           {"["}, FALSE)
                 IN  IF /\ HasPrefixAt(content, chClose, e)
                        /\ MatchSpelling(SubSeq(content, from, e - 1))
                     THEN e ELSE 0
        RECURSIVE FindAllChords(_)
        FindAllChords(i) ==
            IF i > Len(content) THEN <<>>
            ELSE LET e == ChordRegexAt(i)
                 IN  IF e = 0 THEN FindAllChords(i + 1)
                     ELSE <<SubSeq(content, i + Len(chOpen), e - 1)>>
                          \o FindAllChords(e + Len(chClose))
    IN  FindAllChords(1)

-----------------------------------------------------------------------------
(* converter.OnSongConverter: formatContent                                *)

\* chordTokenRegex.MatchString(t).
chordTokenRegex(t) ==
    LET qualities == {<<>>, <<"m", "a", "j">>, <<"m", "i", "n">>, <<"m">>, <<"M">>,
                      <<"s", "u", "s">>, <<"s", "u", "s", "2">>, <<"s", "u", "s", "4">>,
                      <<"a", "u", "g">>, <<"d", "i", "m">>, <<"a", "d", "d">>, <<"n", "o">>}
        notes == {"A", "B", "C", "D", "E", "F", "G"}
        \* s is in [0-9]*(/[A-G][#b]?)?.
        MatchTokenTail(s) ==
            LET r == SubSeq(s, PrefixLen(s, Digits, TRUE) + 1, Len(s))
            IN  \/ r = <<>>
                \/ /\ r[1] = "/"
                   /\ Len(r) >= 2
                   /\ r[2] \in notes
                   /\ (Len(r) = 2 \/ (Len(r) = 3 /\ r[3] \in {"#", "b"}))
    IN  /\ t # <<>>
        /\ t[1] \in notes
        /\ \E n \in {1, 2} :
              /\ n = 2 => (Len(t) >= 2 /\ t[2] \in {"#", "b"})
              /\ \E q \in qualities :
                    /\ HasPrefixAt(t, q, n + 1)
                    /\ MatchTokenTail(SubSeq(t, n + Len(q) + 1, Len(t)))

\* The line has tokens and every one is a chord token.
IsChordLine(line) ==
    LET trimmed == stringsTrimSpace(line)
        tokens == stringsFields(trimmed)
    IN  /\ trimmed # <<>>
        /\ trimmed[Len(trimmed)] # ":"
        /\ Len(tokens) > 0
        /\ \A k \in 1..Len(tokens) : chordTokenRegex(tokens[k])

wrapPlainChordLines(content) ==
    LET \* strings.Replace(s, old, new, 1): the first occurrence only.
        stringsReplace(s, old, new) ==
            LET i == stringsIndex(s, old)
            IN  IF i = 0 THEN s
                ELSE SubSeq(s, 1, i - 1) \o new \o SubSeq(s, i + Len(old), Len(s))
        \* The loop over the tokens of one line.
        RECURSIVE WrapTokens(_, _)
        WrapTokens(line, tokens) ==
            IF tokens = <<>> THEN line
            ELSE WrapTokens(stringsReplace(line, Head(tokens),
                                           <<"[">> \o Head(tokens) \o <<"]">>),
                            Tail(tokens))
        WrapLine(line) ==
            IF IsChordLine(line) THEN WrapTokens(line, stringsFields(stringsTrimSpace(line)))
            ELSE line
        lines == stringsSplit(content)
    IN  stringsJoin([i \in 1..Len(lines) |-> WrapLine(lines[i])])

formatContent(content) ==
    LET \* The fixed names of sectionPattern, in lower case.
        SectionNames ==
            {<<"i", "n", "t", "r", "o">>,
             <<"p", "r", "e", "-", "c", "h", "o", "r", "u", "s">>,
             <<"b", "r", "i", "d", "g", "e">>,
             <<"i", "n", "s", "t", "r", "u", "m", "e", "n", "t", "a", "l">>,
             <<"i", "n", "t", "e", "r", "l", "u", "d", "e">>,
             <<"t", "u", "r", "n", "a", "r", "o", "u", "n", "d">>,
             <<"o", "u", "t", "r", "o">>,
             <<"t", "a", "g">>,
             <<"e", "n", "d", "i", "n", "g">>,
             <<"s", "o", "l", "o">>,
             <<"b", "r", "e", "a", "k">>,
             <<"r", "e", "f", "r", "a", "i", "n">>,
             <<"c", "o", "d", "a">>,
             <<"h", "o", "o", "k">>,
             <<"v", "a", "m", "p">>,
             <<"o", "u", "t", "r", "o", " ", "c", "h", "o", "r", "u", "s">>}
        \* l is w\s*\d* for the word w.
        NumberedSection(l, w) ==
            /\ HasPrefixAt(l, w, 1)
            /\ LET r == SubSeq(l, Len(w) + 1, Len(l))
                   d == SubSeq(r, PrefixLen(r, WhiteSpace, TRUE) + 1, Len(r))
               IN  PrefixLen(d, Digits, TRUE) = Len(d)
        \* The alternation of sectionPattern, which ignores case.
        IsSectionName(name) ==
            LET l == stringsToLower(name)
            IN  \/ l \in SectionNames
                \/ NumberedSection(l, <<"v", "e", "r", "s", "e">>)
                \/ NumberedSection(l, <<"c", "h", "o", "r", "u", "s">>)
        \* The number of characters \s*$ takes after position j under the flag
        \* m: the longest run of white space that ends at the end of a line, or -1.
        TrailingSpace(s, j) ==
            LET run == PrefixLen(SubSeq(s, j + 1, Len(s)), WhiteSpace, TRUE)
                ends == {k \in 0..run : j + k = Len(s) \/ s[j + k + 1] = "\n"}
            IN  IF ends = {} THEN -1 ELSE CHOOSE k \in ends : \A o \in ends : o <= k
        \* sectionPattern at position i: the position of the closing bracket and
        \* the white space taken after it, or close = 0 when there is no match.
        SectionAt(s, i) ==
            LET j == i + 1 + PrefixLen(SubSeq(s, i + 1, Len(s)), {"]"}, FALSE)
            IN  IF /\ (i = 1 \/ s[i - 1] = "\n")
                   /\ s[i] = "["
                   /\ j <= Len(s)
                   /\ IsSectionName(SubSeq(s, i + 1, j - 1))
                   /\ TrailingSpace(s, j) >= 0
                THEN [close |-> j, space |-> TrailingSpace(s, j)]
                ELSE [close |-> 0, space |-> 0]
        \* sectionPattern.ReplaceAllString(content, "$1:") from position i on.
        RECURSIVE ReplaceSections(_, _)
        ReplaceSections(s, i) ==
            IF i > Len(s) THEN <<>>
            ELSE LET m == SectionAt(s, i)
                 IN  IF m.close = 0 THEN <<s[i]>> \o ReplaceSections(s, i + 1)
                     ELSE SubSeq(s, i + 1, m.close - 1) \o <<":">>
                          \o ReplaceSections(s, m.close + m.space + 1)
        \* regexp \n{3,} replaced by two line feeds.
        RECURSIVE CollapseBlankLines(_)
        CollapseBlankLines(s) ==
            IF s = <<>> THEN <<>>
            ELSE LET n == PrefixLen(s, {"\n"}, TRUE)
                 IN  IF n >= 3
                     THEN <<"\n", "\n">> \o CollapseBlankLines(SubSeq(s, n + 1, Len(s)))
                     ELSE IF n >= 1
                     THEN SubSeq(s, 1, n) \o CollapseBlankLines(SubSeq(s, n + 1, Len(s)))
                     ELSE <<Head(s)>> \o CollapseBlankLines(Tail(s))
        untabbed == stringsReplaceAll(stringsReplaceAll(content,
                                                        <<"[", "t", "a", "b", "]">>, <<>>),
                                      <<"[", "/", "t", "a", "b", "]">>, <<>>)
        hasChTags == stringsContains(untabbed, chOpen)
        inline == IF hasChTags
                  THEN stringsReplaceAll(stringsReplaceAll(untabbed, chOpen, <<"[">>),
                                         chClose, <<"]">>)
                  ELSE untabbed
        sectioned == ReplaceSections(inline, 1)
        wrapped == IF ~hasChTags THEN wrapPlainChordLines(sectioned) ELSE sectioned
    IN  stringsTrimSpace(CollapseBlankLines(wrapped))

-----------------------------------------------------------------------------
(* converter.OnSongConverter: Convert, ValidateTab, FormatManualContent    *)

getUniqueChords(chords) ==
    LET NormalizeChordName(chord) ==
            stringsTrimSpace(stringsReplaceAll(stringsReplaceAll(chord, chOpen, <<>>),
                                               chClose, <<>>))
        RECURSIVE uniqueChords(_, _)
        uniqueChords(rest, seen) ==
            IF rest = <<>> THEN <<>>
            ELSE LET normalized == NormalizeChordName(Head(rest))
                 IN  IF normalized \notin seen /\ normalized # <<>>
                     THEN <<normalized>> \o uniqueChords(Tail(rest), seen \cup {normalized})
                     ELSE uniqueChords(Tail(rest), seen)
    IN  uniqueChords(chords, {})

\* A faulty key resolution: the literal "undefined" is taken for a declared
\* tonality.
detectedKeysUndefinedDeclared(tonality, chords) ==
    {IF k = <<>> THEN <<"U", "n", "k", "n", "o", "w", "n">> ELSE k :
        k \in IF tonality = <<>> THEN DetectKey(chords) ELSE {tonality}}

\* The values detectedKey may have in Convert once it is resolved.
detectedKeys(tonality, chords) ==
    {IF k = <<>> THEN <<"U", "n", "k", "n", "o", "w", "n">> ELSE k :
        k \in IF \/ tonality = <<>>
                 \/ tonality = <<"u", "n", "d", "e", "f", "i", "n", "e", "d">>
              THEN DetectKey(chords) ELSE {tonality}}

\* Convert: the [result, err] pairs it may return; tab is a *scraper.TabResult
\* with the fields the converter reads (the rating in tenths), or nil.
Convert(tab) ==
    LET Unknown == <<"U", "n", "k", "n", "o", "w", "n">>
        chords == ExtractChords(tab.Content)
        keys == detectedKeys(tab.TonalityName, chords)
        footer ==
            <<"#", " ", "S", "o", "u", "r", "c", "e", ":", " ", "U", "l", "t", "i", "m", "a", "t", "e", " ", "G", "u", "i", "t", "a", "r", " ", "(", "T", "a", "b", " ", "I", "D", ":", " ">> \o Itoa(tab.TabID) \o <<")", "\n">>
            \o <<"#", " ", "C", "o", "n", "t", "r", "i", "b", "u", "t", "o", "r", ":", " ">> \o tab.Username \o <<"\n">>
            \o <<"#", " ", "R", "a", "t", "i", "n", "g", ":", " ">> \o Itoa(tab.Rating \div 10) \o <<".">> \o Itoa(tab.Rating % 10)
            \o <<"/", "5", ".", "0", " ", "(">> \o Itoa(tab.Votes) \o <<" ", "v", "o", "t", "e", "s", ")", "\n">>
        ConversionResult(detectedKey) ==
                [nil |-> FALSE,
                 OnSongFormat |->
                     tab.SongName \o <<"\n">> \o tab.ArtistName \o <<"\n">>
                     \o (IF detectedKey # <<>> /\ detectedKey # Unknown
                         THEN <<"K", "e", "y", ":", " ">> \o detectedKey \o <<"\n">> ELSE <<>>)
                     \o (IF tab.Capo > 0
                         THEN <<"C", "a", "p", "o", ":", " ">> \o Itoa(tab.Capo) \o <<"\n">>
                         ELSE <<>>)
                     \o (IF /\ tab.Tuning # <<>>
                            /\ tab.Tuning # <<"E", " ", "A", " ", "D", " ", "G", " ", "B", " ", "E">>
                         THEN <<"T", "u", "n", "i", "n", "g", ":", " ">> \o tab.Tuning \o <<"\n">>
                         ELSE <<>>)
                     \o <<"\n">> \o formatContent(tab.Content) \o <<"\n", "\n">> \o footer,
                 DetectedKey |-> detectedKey,
                 ChordCount |-> Len(chords),
                 Chords |-> getUniqueChords(chords)]
    IN  IF tab.nil THEN {[result |-> [nil |-> TRUE], err |-> Err("tab cannot be nil", 0, 0)]}
        ELSE {[result |-> ConversionResult(key), err |-> NoErr] : key \in keys}

\* The errors of ValidateTab, by the field that is missing.
ErrRequired ==
    [SongName |-> Err("song name is required", 0, 0),
     ArtistName |-> Err("artist name is required", 0, 0),
     Content |-> Err("tab content is empty", 0, 0)]

\* A faulty ValidateTab: the content is not looked at.
ValidateTabNoContent(tab) ==
    IF tab.SongName = <<>> THEN ErrRequired.SongName
    ELSE IF tab.ArtistName = <<>> THEN ErrRequired.ArtistName
    ELSE NoErr

\* A faulty ValidateTab: the artist is looked at before the title.
ValidateTabArtistFirst(tab) ==
    IF tab.ArtistName = <<>> THEN ErrRequired.ArtistName
    ELSE IF tab.SongName = <<>> THEN ErrRequired.SongName
    ELSE IF tab.Content = <<>> THEN ErrRequired.Content
    ELSE NoErr

ValidateTab(tab) ==
    IF tab.SongName = <<>> THEN ErrRequired.SongName
    ELSE IF tab.ArtistName = <<>> THEN ErrRequired.ArtistName
    ELSE IF tab.Content = <<>> THEN ErrRequired.Content
    ELSE NoErr

\* TabHandler.Handle once the tab is fetched: the answers it may give.
HandleTab(tab) ==
    IF ValidateTab(tab) # NoErr
    THEN {[status |-> 400, error |-> "invalid tab data", details |-> ValidateTab(tab),
           result |-> [nil |-> TRUE]]}
    ELSE {IF c.err # NoErr
          THEN [status |-> 500, error |-> "conversion failed", details |-> c.err,
                result |-> [nil |-> TRUE]]
          ELSE [status |-> 200, error |-> "", details |-> NoErr, result |-> c.result]
          : c \in Convert(tab)}

\* FormatManualContent: the documents it may return.
FormatManualContent(title, artist, content) ==
    LET \* extractPlainChords: the tokens of the chord-only lines, from line i on.
        lines == stringsSplit(content)
        RECURSIVE extractPlainChords(_)
        extractPlainChords(i) ==
            IF i > Len(lines) THEN <<>>
            ELSE (IF IsChordLine(lines[i]) THEN stringsFields(stringsTrimSpace(lines[i]))
                  ELSE <<>>)
                 \o extractPlainChords(i + 1)
        tagged == ExtractChords(content)
        chords == IF Len(tagged) = 0 THEN extractPlainChords(1) ELSE tagged
        keys == IF Len(chords) > 0 THEN DetectKey(chords) ELSE {<<>>}
    IN  {title \o <<"\n">> \o artist \o <<"\n">>
         \o (IF key # <<>> THEN <<"K", "e", "y", ":", " ">> \o key \o <<"\n">> ELSE <<>>)
         \o <<"\n">>
         \o (IF content # <<>> THEN formatContent(content) ELSE <<>>)
         : key \in keys}

UnknownArtist == <<"U", "n", "k", "n", "o", "w", "n", " ", "A", "r", "t", "i", "s", "t">>

\* A faulty FormatHandler.Handle: the artist is passed on as it was sent.
HandleFormatArtistAsSent(req) ==
    IF req.title = <<>>
    THEN {[status |-> 400, error |-> "title is required", formatted |-> <<>>]}
    ELSE {[status |-> 200, error |-> "", formatted |-> f] :
             f \in FormatManualContent(req.title, req.artist, req.content)}

\* FormatHandler.Handle once the body is parsed: the answers it may give.
HandleFormat(req) ==
    IF req.title = <<>>
    THEN {[status |-> 400, error |-> "title is required", formatted |-> <<>>]}
    ELSE {[status |-> 200, error |-> "", formatted |-> f] :
             f \in FormatManualContent(req.title,
                                       IF req.artist = <<>> THEN UnknownArtist ELSE req.artist,
                                       req.content)}

-----------------------------------------------------------------------------
(* One call of a function of the converter package, or of a handler that   *)
(* leads to it, on a short input.                                          *)

MaxChords == 3

MaxPieces == 2

MaxTokens == 4

\* The call: the function and its argument.
InitConvert ==
    LET \* The concatenations of at most n of pieces.
        RECURSIVE Concats(_, _)
        Concats(pieces, n) ==
            IF n = 0 THEN {<<>>}
            ELSE Concats(pieces, n - 1)
                 \cup {p \o c : p \in pieces, c \in Concats(pieces, n - 1)}
        \* Spellings with a valid root, with a root outside the vocabulary, and
        \* the empty string.
        KeyChords ==
            {<<>>, <<"A">>, <<"A", "m">>, <<"A", "m", "a", "j", "7">>, <<"B", "b">>,
             <<"C", "#", "m">>, <<"C", "b">>, <<"H">>, <<"a">>, <<"#">>, <<"D", "M">>}
        \* Two songs: one in G, one in A minor.
        Songs == {<< <<"G">>, <<"C">>, <<"G">>, <<"D">> >>,
                  << <<"A", "m">>, <<"A", "m">>, <<"C">>, <<"F">> >>}
        \* What a tab's content is put together from: annotations (one with a
        \* bass note), white space, a lyric, a section header, a tab tag, a bare
        \* chord.
        Contents ==
            Concats({<<"[", "c", "h", "]", "G", "[", "/", "c", "h", "]">>,
                     <<"[", "c", "h", "]", "C", "/", "G", "[", "/", "c", "h", "]">>,
                     <<"[", "c", "h", "]", "A", "m", "[", "/", "c", "h", "]">>,
                     <<" ">>,
                     <<"\n">>,
                     <<"l", "a">>,
                     <<"[", "I", "n", "t", "r", "o", "]">>,
                     <<"[", "t", "a", "b", "]">>,
                     <<"G">>}, MaxPieces)
        \* What a plain text is put together from: chords, one of them a prefix
        \* of another and one with a bass note, blanks, a lyric, a line break.
        PlainContents ==
            Concats({<<"G">>, <<"A", "m">>, <<"A">>, <<"C", "/", "G">>, <<" ">>,
                     <<" ", " ">>, <<"l", "a">>, <<"\n">>}, MaxTokens)
        \* Capo and tuning as the catalog declares them.
        TabExtras ==
            {[capo |-> 0, tuning |-> <<>>],
             [capo |-> 0, tuning |-> <<"E", " ", "A", " ", "D", " ", "G", " ", "B", " ", "E">>],
             [capo |-> 2, tuning |-> <<"D", " ", "A", " ", "D", " ", "G", " ", "B", " ", "E">>]}
        Tabs ==
            {[nil |-> FALSE, SongName |-> t, ArtistName |-> a, Content |-> c,
              TonalityName |-> k, Capo |-> x.capo, Tuning |-> x.tuning, TabID |-> 1234,
              Username |-> <<"b", "o", "b">>, Rating |-> 47, Votes |-> 12] :
                t \in {<<>>, <<"T">>}, a \in {<<>>, <<"A">>}, c \in Contents,
                k \in {<<>>, <<"u", "n", "d", "e", "f", "i", "n", "e", "d">>, <<"E", "m">>,
                       <<"U", "n", "k", "n", "o", "w", "n">>},
                x \in TabExtras}
        \* A format request: title, artist (empty, a blank, a name) and content.
        FormatRequests ==
            {[title |-> t, artist |-> a, content |-> c] :
                t \in {<<>>, <<"T">>}, a \in {<<>>, <<" ">>, <<"A">>}, c \in Contents}
        ConvCall(fn, inputs) == cfn = fn /\ cIn \in inputs
    IN  /\ SendIdle
        /\ SearchIdle
        /\ FilterIdle
        /\ TabIdle
        /\ StoreIdle
        /\ flareSolverrURL = NoProxy
        /\ cpc = "called"
        /\ cOut = <<>>
        /\ \/ ConvCall("DetectKey",
                       Songs \cup UNION {[1..n -> KeyChords] : n \in 0..MaxChords})
           \/ ConvCall("Convert", Tabs \cup {[nil |-> TRUE]})
           \/ ConvCall("ValidateTab", Tabs)
           \/ ConvCall("TabHandler.Handle", Tabs)
           \/ ConvCall("wrapPlainChordLines", PlainContents)
           \/ ConvCall("formatContent", PlainContents)
           \/ ConvCall("FormatManualContent", FormatRequests)
           \/ ConvCall("FormatHandler.Handle", FormatRequests)
           \/ ConvCall("persistToFile",
                       {<<>>, <<"/", "d", "a", "t", "a", "/", "w", "e", "b", "h", "o", "o", "k", "-", "c", "o", "n", "f", "i", "g", ".", "j", "s", "o", "n">>,
                        <<"/", "w", "e", "b", "h", "o", "o", "k", "-", "c", "o", "n", "f", "i", "g", ".", "j", "s", "o", "n">>,
                        <<"c", "o", "n", "f", "i", "g", ".", "j", "s", "o", "n">>,
                        <<"/", "v", "a", "r", "/", "l", "i", "b", "/", "u", "g", "-", "s", "c", "r", "a", "p", "e", "r", "/", "h", "o", "o", "k", ".", "j", "s", "o", "n">>})

\* fn returns one of outs.
\* persistToFile on a store whose filePath is as given: the ways it can end.
\* The directory is the path less as many bytes as "/webhook-config.json"
\* has, and slicing to a negative length panics; os.MkdirAll and
\* os.WriteFile succeed or fail, and os.MkdirAll("") fails.
persistToFile(filePath) ==
    LET n == Len(filePath) - Len(<<"/", "w", "e", "b", "h", "o", "o", "k", "-", "c", "o", "n", "f", "i", "g", ".", "j", "s", "o", "n">>)
        dir == SubSeq(filePath, 1, n)
    IN  IF filePath = <<>> THEN {[outcome |-> "nil", err |-> ""]}
        ELSE IF n < 0
        THEN {[outcome |-> "panic", err |-> "slice bounds out of range"]}
        ELSE {[outcome |-> "error", err |-> "creating config directory"]}
             \cup (IF dir = <<>> THEN {}
                   ELSE {[outcome |-> "error", err |-> "writing config file"],
                         [outcome |-> "nil", err |-> ""]})

ConvReturn(fn, outs) ==
    /\ cpc = "called"
    /\ cfn = fn
    /\ cpc' = "returned"
    /\ cOut' \in outs
    /\ UNCHANGED <<cfn, cIn, sendVars, flareSolverrURL, searchVars, filterVars, tabVars,
                   storeVars>>

NextConvert ==
    \/ ConvReturn("DetectKey", DetectKey(cIn))
    \/ ConvReturn("Convert", Convert(cIn))
    \/ ConvReturn("ValidateTab", {ValidateTab(cIn)})
    \/ ConvReturn("TabHandler.Handle", HandleTab(cIn))
    \/ ConvReturn("wrapPlainChordLines", {wrapPlainChordLines(cIn)})
    \/ ConvReturn("formatContent", {formatContent(cIn)})
    \/ ConvReturn("FormatManualContent",
                  FormatManualContent(cIn.title, cIn.artist, cIn.content))
    \/ ConvReturn("FormatHandler.Handle", HandleFormat(cIn))
    \/ ConvReturn("persistToFile", persistToFile(cIn))

SpecConvert == InitConvert /\ [][NextConvert]_vars

-----------------------------------------------------------------------------
(* scraper.UGClient: GetTabByID.                                           *)

\* The zero time.Time.
ZeroTime == [year |-> 1, month |-> 1, day |-> 1]

\* time.Parse("2006-01-02", s): four digits, a dash, two digits, a dash, two
\* digits and nothing else, the month and the day in range.
timeParse(s) ==
    LET D(i) == CASE s[i] = "0" -> 0 [] s[i] = "1" -> 1 [] s[i] = "2" -> 2 [] s[i] = "3" -> 3
                  [] s[i] = "4" -> 4 [] s[i] = "5" -> 5 [] s[i] = "6" -> 6 [] s[i] = "7" -> 7
                  [] s[i] = "8" -> 8 [] s[i] = "9" -> 9
        year == 1000 * D(1) + 100 * D(2) + 10 * D(3) + D(4)
        month == 10 * D(6) + D(7)
        day == 10 * D(9) + D(10)
        daysIn == IF month = 2
                  THEN (IF year % 4 = 0 /\ (year % 100 # 0 \/ year % 400 = 0) THEN 29 ELSE 28)
                  ELSE IF month \in {4, 6, 9, 11} THEN 30 ELSE 31
    IN  IF /\ Len(s) = 10
           /\ s[5] = "-" /\ s[8] = "-"
           /\ \A i \in {1, 2, 3, 4, 6, 7, 9, 10} : s[i] \in Digits
           /\ month \in 1..12 /\ day >= 1 /\ day <= daysIn
        THEN [ok |-> TRUE, time |-> [year |-> year, month |-> month, day |-> day]]
        ELSE [ok |-> FALSE, time |-> ZeroTime]

\* A faulty test of the status: every 2xx status passes.
TabStatusOK2xx(status) == status >= 200 /\ status <= 299

\* The status with which GetTabByID goes on to decode the body.
TabStatusOK(status) == status = 200

\* What httpClient.Do may answer: a transport error, or a status with a body
\* that is no JSON or a tab record. The record declares no date, a date, a
\* day and a month out of range, leap days, a short form, a date with a time
\* or a word.
TabAnswers ==
    LET dates == {<<>>, <<"2", "0", "2", "4", "-", "0", "3", "-", "1", "5">>,
                  <<"2", "0", "2", "4", "-", "0", "2", "-", "3", "0">>,
                  <<"2", "0", "2", "4", "-", "0", "2", "-", "2", "9">>,
                  <<"2", "0", "2", "3", "-", "0", "2", "-", "2", "9">>,
                  <<"2", "0", "2", "4", "-", "1", "3", "-", "0", "1">>,
                  <<"2", "0", "2", "4", "-", "3", "-", "5">>,
                  <<"2", "0", "2", "4", "-", "0", "3", "-", "1", "5", "T", "1", "0", ":", "0", "0", ":", "0", "0", "Z">>,
                  <<"y", "e", "s", "t", "e", "r", "d", "a", "y">>}
        bodies == {[decodable |-> FALSE, text |-> "<html>"]}
                  \cup {[decodable |-> TRUE,
                         json |-> [TabID |-> 1234, SongName |-> <<"T">>, ArtistName |-> <<"A">>,
                                   TonalityName |-> <<>>, Capo |-> 0, Tuning |-> <<>>,
                                   Content |-> c, Date |-> d]] :
                            c \in {<<>>, <<"[", "c", "h", "]", "G", "[", "/", "c", "h", "]">>}, d \in dates}
    IN  {[kind |-> "transport"]}
        \cup {[kind |-> "response", status |-> st, body |-> b] :
                 st \in {199, 200, 201, 204, 299, 300, 404, 500}, b \in bodies}

\* GetTabByID is called with a numeric id or with one that holds a line break.
InitTab ==
    /\ SendIdle /\ SearchIdle /\ FilterIdle /\ ConvIdle /\ StoreIdle
    /\ flareSolverrURL = NoProxy
    /\ tpc = "called"
    /\ tabID \in {<<"1", "2", "3", "4">>, <<"1", "2", "\n">>}
    /\ tabWire = <<>>
    /\ tabResp = [kind |-> "none"]
    /\ tabOut = <<>>
    /\ deviceIDs = [handlers |-> "", scraper |-> ""] /\ authWire = {}

\* GetTabByID up to httpClient.Do: the request is built and sent.
\* http.NewRequest refuses a URL with a control character in it.
TabRequest ==
    /\ tpc = "called"
    /\ IF \E i \in 1..Len(tabID) : tabID[i] \in {"\n", "\t", "\r"}
       THEN /\ tpc' = "returned"
            /\ tabOut' = [tab |-> [nil |-> TRUE],
                          err |-> [kind |-> "creating request", code |-> 0, body |-> <<>>]]
            /\ UNCHANGED tabWire
       ELSE /\ tpc' = "waiting"
            /\ tabWire' = Append(tabWire, [method |-> "GET", tab_id |-> tabID])
            /\ UNCHANGED tabOut
    /\ UNCHANGED <<tabID, tabResp, deviceIDs, authWire, sendVars, flareSolverrURL, searchVars,
                   filterVars, convVars, storeVars>>

\* GetTabByID from the answer of httpClient.Do on.
TabAnswer(a) ==
    LET apiResp == a.body.json
        tabResult ==
            [nil |-> FALSE, TabID |-> apiResp.TabID, SongName |-> apiResp.SongName,
             ArtistName |-> apiResp.ArtistName, TonalityName |-> apiResp.TonalityName,
             Capo |-> apiResp.Capo, Tuning |-> apiResp.Tuning, Content |-> apiResp.Content,
             Date |-> IF apiResp.Date # <<>> /\ timeParse(apiResp.Date).ok
                      THEN timeParse(apiResp.Date).time ELSE ZeroTime]
        failed(kind, code, body) ==
            [tab |-> [nil |-> TRUE], err |-> [kind |-> kind, code |-> code, body |-> body]]
    IN  /\ tpc = "waiting"
        /\ tpc' = "returned"
        /\ tabResp' = a
        /\ tabOut' =
              IF a.kind = "transport" THEN failed("making request", 0, <<>>)
              ELSE IF ~TabStatusOK(a.status)
                   THEN failed("API returned status", a.status, a.body)
              ELSE IF ~a.body.decodable THEN failed("decoding response", 0, <<>>)
              ELSE [tab |-> tabResult, err |-> NoErr]
        /\ UNCHANGED <<tabID, tabWire, deviceIDs, authWire, sendVars, flareSolverrURL,
                       searchVars, filterVars, convVars, storeVars>>

SpecTab == InitTab /\ [][TabRequest \/ \E a \in TabAnswers : TabAnswer(a)]_vars

-----------------------------------------------------------------------------
(* scraper.UGClient: the authentication headers of the requests one        *)
(* process sends to the catalog.                                           *)

\* What generateDeviceID may return: sixteen hexadecimal digits, random.
generateDeviceID == {"0f1e2d3c4b5a6978", "8796a5b4c3d2e1f0", "00112233aabbccdd"}

\* generateAPIKey at the hour now: the MD5 hash, which stands for what it is
\* the hash of.
generateAPIKey(deviceID, now) == [md5 |-> <<deviceID, now, "createLog()">>]

\* SetupRoutes: NewUGClient for the tab handlers, and NewSearchScraper, which
\* calls NewUGClient for itself.
InitAuth ==
    /\ SendIdle /\ SearchIdle /\ FilterIdle /\ ConvIdle /\ StoreIdle
    /\ flareSolverrURL = NoProxy
    /\ tpc = "idle" /\ tabID = <<>> /\ tabWire = <<>> /\ tabResp = [kind |-> "none"]
    /\ tabOut = <<>>
    /\ deviceIDs \in [handlers : generateDeviceID, scraper : generateDeviceID]
    /\ authWire = {}

\* The authentication headers of one request at the hour now: those
\* configureHeaders sets for GetTabByID, with the handlers' client, or those
\* trySearchEndpoint sets, with the scraper's client.
AuthHeaders(by, deviceID, now) ==
    /\ authWire' = authWire \cup {[by |-> by, clientID |-> deviceID,
                                    apiKey |-> generateAPIKey(deviceID, now)]}
    /\ UNCHANGED <<tpc, tabID, tabWire, tabResp, tabOut, deviceIDs, sendVars, flareSolverrURL,
                   searchVars, filterVars, convVars, storeVars>>

SpecAuth ==
    InitAuth /\ [][\E now \in {"2026-11-03:9", "2026-11-03:10"} :
                      \/ AuthHeaders("GetTabByID", deviceIDs.handlers, now)
                      \/ AuthHeaders("trySearchEndpoint", deviceIDs.scraper, now)]_vars

-----------------------------------------------------------------------------
(* config.ConfigStore: Save, Clear, Get, GetURL and IsConfigured called by *)
(* concurrent requests.                                                    *)

MaxCalls == 3

MaxClock == 2

\* The goroutines that call the store.
Procs == {1, 2}

\* The *WebhookConfig values a caller passes to Save: a fresh config with URL
\* and Enabled set and zero timestamps, or nil.
NewConfigs ==
    {[nil |-> FALSE, URL |-> c[1], Enabled |-> c[2], CreatedAt |-> 0, UpdatedAt |-> 0] :
        c \in {<<"", TRUE>>, <<"http://a", FALSE>>, <<"http://a", TRUE>>, <<"http://b", TRUE>>}}
    \cup {[nil |-> TRUE]}

\* NewConfigStore: the file, if the store is persistent and the file holds a
\* configuration, is loaded; a goroutine is idle until it calls.
InitStore ==
    LET SavedEarlier == [nil |-> FALSE, URL |-> "http://a", Enabled |-> TRUE,
                         CreatedAt |-> 1, UpdatedAt |-> 1]
        Absent == [state |-> "absent", config |-> ZeroConfig]
        Unreadable == [state |-> "unreadable", config |-> ZeroConfig]
    IN  /\ SendIdle /\ SearchIdle /\ FilterIdle /\ ConvIdle /\ TabIdle
        /\ flareSolverrURL = NoProxy
        /\ persistent \in BOOLEAN
        /\ file \in (IF persistent
                     THEN {Absent, Unreadable, [state |-> "written", config |-> SavedEarlier]}
                     ELSE {Absent})
        /\ storeConfig = (IF file.state = "written" THEN file.config ELSE ZeroConfig)
        /\ mu = [writer |-> 0, readers |-> {}]
        /\ clock = 1
        /\ procs = [p \in Procs |-> [pc |-> "idle", op |-> "none", arg |-> [nil |-> TRUE],
                                     ret |-> "none", err |-> NoErr, was |-> [nil |-> TRUE]]]
        /\ ncalls = 0

\* A faulty RLock: it is granted while a writer holds the mutex.
CanRLockAlways(m) == TRUE

\* sync.RWMutex: RLock is granted when no writer holds the mutex.
CanRLock(m) == m.writer = 0

\* Goroutine p calls op; arg is what a Save is given. Save refuses nil before
\* it takes the mutex.
StoreCall(p, op, arg) ==
    /\ procs[p].pc = "idle"
    /\ ncalls < MaxCalls
    /\ ncalls' = ncalls + 1
    /\ procs' = [procs EXCEPT ![p] =
                    IF op = "Save" /\ arg.nil
                    THEN [pc |-> "idle", op |-> op, arg |-> arg, ret |-> "none",
                          err |-> Err("config cannot be nil", 0, 0), was |-> [nil |-> TRUE]]
                    ELSE [pc |-> "called", op |-> op,
                          arg |-> IF op = "Save" THEN arg ELSE [nil |-> TRUE],
                          ret |-> "none", err |-> NoErr, was |-> [nil |-> TRUE]]]
    /\ UNCHANGED <<storeConfig, file, persistent, mu, clock, storeFrame>>

\* s.mu.Lock() of Save and Clear, granted when nobody holds the mutex, and
\* s.mu.RLock() of Get, GetURL and IsConfigured.
StoreAcquire(p) ==
    /\ procs[p].pc = "called"
    /\ IF procs[p].op \in {"Save", "Clear"}
       THEN /\ mu.writer = 0 /\ mu.readers = {}
            /\ mu' = [mu EXCEPT !.writer = p]
            /\ procs' = [procs EXCEPT
                            ![p].pc = IF procs[p].op = "Save" THEN "timestamps" ELSE "clear",
                            ![p].was = storeConfig]
       ELSE /\ CanRLock(mu)
            /\ mu' = [mu EXCEPT !.readers = @ \cup {p}]
            /\ procs' = [procs EXCEPT ![p].pc = "read"]
    /\ UNCHANGED <<storeConfig, file, persistent, clock, ncalls, storeFrame>>

\* A faulty Save: config.CreatedAt is time.Now() whatever is stored.
SaveTimestampsAlwaysNow(p, created, updated) ==
    /\ procs[p].pc = "timestamps"
    /\ clock <= created /\ created <= updated
    /\ clock' = updated
    /\ procs' = [procs EXCEPT ![p].pc = "store",
                              ![p].arg.CreatedAt = created,
                              ![p].arg.UpdatedAt = updated]
    /\ UNCHANGED <<storeConfig, file, persistent, mu, ncalls, storeFrame>>

\* Save: config.CreatedAt is time.Now(), read at created, if the stored
\* config has none and the stored one otherwise; config.UpdatedAt is
\* time.Now(), read at updated.
SaveTimestamps(p, created, updated) ==
    /\ procs[p].pc = "timestamps"
    /\ clock <= created /\ created <= updated
    /\ clock' = updated
    /\ procs' = [procs EXCEPT ![p].pc = "store",
                              ![p].arg.CreatedAt =
                                  IF storeConfig.CreatedAt = 0 THEN created
                                  ELSE storeConfig.CreatedAt,
                              ![p].arg.UpdatedAt = updated]
    /\ UNCHANGED <<storeConfig, file, persistent, mu, ncalls, storeFrame>>

\* Save: s.config = config.
SaveStore(p) ==
    /\ procs[p].pc = "store"
    /\ storeConfig' = procs[p].arg
    /\ procs' = [procs EXCEPT ![p].pc = "persist"]
    /\ UNCHANGED <<file, persistent, mu, clock, ncalls, storeFrame>>

\* Save: persistToFile if the store is persistent; written tells whether the
\* directory and the file could be written.
SavePersist(p, written) ==
    /\ procs[p].pc = "persist"
    /\ IF ~persistent THEN UNCHANGED file /\ procs' = [procs EXCEPT ![p].pc = "release"]
       ELSE IF written
            THEN file' = [state |-> "written", config |-> storeConfig] /\ procs' = [procs EXCEPT ![p].pc = "release"]
            ELSE /\ UNCHANGED file
                 /\ procs' = [procs EXCEPT ![p].pc = "release",
                                           ![p].err = Err("writing config file", 0, 0)]
    /\ UNCHANGED <<storeConfig, persistent, mu, clock, ncalls, storeFrame>>

\* Clear: s.config = &WebhookConfig{}.
ClearStore(p) ==
    /\ procs[p].pc = "clear"
    /\ storeConfig' = ZeroConfig
    /\ procs' = [procs EXCEPT ![p].pc = "remove"]
    /\ UNCHANGED <<file, persistent, mu, clock, ncalls, storeFrame>>

\* Clear: os.Remove if the store is persistent; a file that does not exist
\* is no error.
ClearRemove(p, removed) ==
    /\ procs[p].pc = "remove"
    /\ IF ~persistent \/ file.state = "absent"
       THEN UNCHANGED file /\ procs' = [procs EXCEPT ![p].pc = "release"]
       ELSE IF removed
            THEN file' = [state |-> "absent", config |-> ZeroConfig] /\ procs' = [procs EXCEPT ![p].pc = "release"]
            ELSE /\ UNCHANGED file
                 /\ procs' = [procs EXCEPT ![p].pc = "release",
                                           ![p].err = Err("removing config file", 0, 0)]
    /\ UNCHANGED <<storeConfig, persistent, mu, clock, ncalls, storeFrame>>

\* The first load of s.config by a read: Get copies *s.config; IsConfigured
\* tests s.config.URL != ""; GetURL tests s.config.Enabled.
ReadFirst(p) ==
    /\ procs[p].pc = "read"
    /\ procs' =
          CASE procs[p].op = "Get" ->
                 [procs EXCEPT ![p].pc = "release", ![p].ret = storeConfig]
            [] procs[p].op = "IsConfigured" ->
                 IF storeConfig.URL # "" THEN [procs EXCEPT ![p].pc = "read2"]
                 ELSE [procs EXCEPT ![p].pc = "release", ![p].ret = FALSE]
            [] procs[p].op = "GetURL" ->
                 IF storeConfig.Enabled THEN [procs EXCEPT ![p].pc = "read2"]
                 ELSE [procs EXCEPT ![p].pc = "release", ![p].ret = ""]
    /\ UNCHANGED <<storeConfig, file, persistent, mu, clock, ncalls, storeFrame>>

\* The second load of s.config: IsConfigured returns s.config.Enabled, GetURL
\* returns s.config.URL.
ReadSecond(p) ==
    /\ procs[p].pc = "read2"
    /\ procs' = [procs EXCEPT ![p].pc = "release",
                              ![p].ret = IF procs[p].op = "IsConfigured"
                                         THEN storeConfig.Enabled ELSE storeConfig.URL]
    /\ UNCHANGED <<storeConfig, file, persistent, mu, clock, ncalls, storeFrame>>

\* The deferred s.mu.Unlock() or s.mu.RUnlock(): the call returns.
StoreRelease(p) ==
    /\ procs[p].pc = "release"
    /\ mu' = IF procs[p].op \in {"Save", "Clear"} THEN [mu EXCEPT !.writer = 0]
             ELSE [mu EXCEPT !.readers = @ \ {p}]
    /\ procs' = [procs EXCEPT ![p].pc = "idle", ![p].was = [nil |-> TRUE]]
    /\ UNCHANGED <<storeConfig, file, persistent, clock, ncalls, storeFrame>>

NextStore ==
    \/ \E p \in Procs, op \in {"Save", "Clear", "Get", "GetURL", "IsConfigured"},
          arg \in NewConfigs : StoreCall(p, op, arg)
    \/ \E p \in Procs : StoreAcquire(p)
    \/ \E p \in Procs, created, updated \in 1..MaxClock : SaveTimestamps(p, created, updated)
    \/ \E p \in Procs : SaveStore(p)
    \/ \E p \in Procs, written \in BOOLEAN : SavePersist(p, written)
    \/ \E p \in Procs : ClearStore(p)
    \/ \E p \in Procs, removed \in BOOLEAN : ClearRemove(p, removed)
    \/ \E p \in Procs : ReadFirst(p)
    \/ \E p \in Procs : ReadSecond(p)
    \/ \E p \in Procs : StoreRelease(p)

SpecStore == InitStore /\ [][NextStore]_vars

-----------------------------------------------------------------------------
(* The claims about the delivery client.                                   *)

SWR == sfn = "SendWithRetry"

Returned == spc = "done"

\* A status in 200..299.
Is2xx(r) == r.kind = "status" /\ r.code \in 200..299

MaxPosts == maxRetries + 1

\* The error the answer to the last POST stands for.
LastAttemptError ==
    IF ~ParsesAsURL(webhookURL) THEN ErrCreatingRequest
    ELSE IF lastResp.kind = "transport" THEN ErrAttemptFailed(Len(wire))
    ELSE ErrAttemptStatus(Len(wire), lastResp.code)

\* C1 as stated: for every non-empty URL a returned SendWithRetry has issued
\* between 1 and 7 POSTs, and without a successful attempt it reports
\* success=false with 1 <= attempts <= 7.
C1_Original ==
    (SWR /\ Returned /\ webhookURL # EmptyURL) =>
        /\ Len(wire) \in 1..MaxPosts
        /\ (~Is2xx(lastResp) => ~result.nil /\ ~result.success
                                /\ result.attempts \in 1..MaxPosts)

\* C1 amended: SendWithRetry never issues more than 7 POSTs; it issues at
\* least one when the URL is non-empty, the payload serializes and the request
\* can be built from the URL (and none otherwise); no POST starts once the 60s
\* budget has passed; a result reporting failure has 1 <= attempts <= 7; and
\* every invocation that has started returns.
C1_BoundedRetry ==
    /\ [](SWR => Len(wire) <= MaxPosts /\ attempts <= MaxPosts)
    /\ []((SWR /\ Returned) =>
            (Len(wire) >= 1 <=> (webhookURL # EmptyURL /\ Marshals(payload)
                                 /\ ParsesAsURL(webhookURL))))
    /\ []((SWR /\ spc = "op") => elapsed <= MaxElapsedTime)
    /\ []((SWR /\ spc = "backoff" /\ elapsed >= MaxElapsedTime) =>
            (\A next \in RandomizedIntervals(currentInterval) : OverBudget(elapsed, next)))
    /\ []((SWR /\ Returned /\ ~result.nil /\ ~Is2xx(lastResp)) =>
            (~result.success /\ result.attempts \in 1..MaxPosts))
    /\ ((SWR /\ spc \in {"op", "backoff"}) ~> Returned)

\* The endpoint answered 500 to every POST and the 60s budget, not the retry
\* ceiling, ended the delivery.
C1_Witness ==
    /\ SWR /\ Returned /\ ~result.success
    /\ lastResp = StatusResp(500)
    /\ numTries <= maxRetries
    /\ Len(wire) \in 2..maxRetries
    /\ retErr = ErrAttemptStatus(Len(wire), 500)

\* C2: once a POST of SendWithRetry is answered 2xx the invocation has
\* returned (no further POST), with a nil error and a result holding
\* success=true, attempts = the number of POSTs issued, and no error.
C2_SuccessStops ==
    (SWR /\ Is2xx(lastResp)) =>
        /\ Returned
        /\ retErr = NoErr
        /\ result = [nil |-> FALSE, success |-> TRUE, delivery_id |-> deliveryID,
                     attempts |-> Len(wire), error |-> NoErr]

\* Two POSTs failed, the third was answered 2xx.
C2_Witness ==
    /\ SWR /\ Returned /\ Is2xx(lastResp)
    /\ Len(wire) = 3
    /\ result.success /\ result.attempts = 3

\* C3 as stated: every returned SendWithRetry hands back a non-nil
\* DeliveryResult with attempts >= 1.
C3_Original == (SWR /\ Returned) => (~result.nil /\ result.attempts >= 1)

\* C3 amended: SendWithRetry returns a nil DeliveryResult (and only an error)
\* exactly when it rejects an empty URL or fails to serialize the payload; in
\* every other outcome it returns one non-nil DeliveryResult with attempts >= 1.
C3_ResultUnlessRejected ==
    (SWR /\ Returned) =>
        /\ result.nil <=> (webhookURL = EmptyURL \/ ~Marshals(payload))
        /\ result.nil => retErr \in {ErrEmptyURL, ErrMarshal}
        /\ ~result.nil => (result.attempts >= 1 /\ result.attempts = attempts)

\* A permanent failure: the request could not be built, and a result came back.
C3_Witness ==
    /\ SWR /\ Returned /\ ~result.nil
    /\ retErr = ErrCreatingRequest
    /\ result.attempts = 1

\* C5 as stated: a SendWithRetry that returns without a successful attempt
\* returns a non-nil error and a result with success=false, the last attempt's
\* error and attempts = the number of POSTs executed; success iff nil error.
C5_Original ==
    /\ (SWR /\ Returned /\ ~Is2xx(lastResp)) =>
          /\ retErr # NoErr
          /\ ~result.nil /\ ~result.success
          /\ result.error = LastAttemptError
          /\ result.attempts = Len(wire)
    /\ (SWR /\ Returned) => (result.success <=> retErr = NoErr)

\* C5 amended: a SendWithRetry that made at least one attempt and returns
\* without a successful one returns a non-nil error and a result with
\* success=false, the last attempt's error, and attempts = the number of runs
\* of the operation: the POSTs issued, plus one when the request could not be
\* built. Success iff nil error, in every outcome.
C5_ExhaustionReport ==
    /\ (SWR /\ Returned /\ ~Is2xx(lastResp) /\ attempts >= 1) =>
          /\ retErr # NoErr
          /\ ~result.nil /\ ~result.success
          /\ result.error = retErr
          /\ result.error = LastAttemptError
          /\ result.attempts = Len(wire) + (IF ParsesAsURL(webhookURL) THEN 0 ELSE 1)
    /\ (SWR /\ Returned) => (result.success <=> retErr = NoErr)

\* Seven POSTs, the last answered by a transport error: the retries ran out.
C5_Witness ==
    /\ SWR /\ Returned
    /\ Len(wire) = MaxPosts
    /\ lastResp = TransportFailure
    /\ result.attempts = MaxPosts
    /\ retErr = ErrAttemptFailed(MaxPosts)

\* C6 as stated: a returned TestWebhook has issued exactly one POST, and
\* returned nil iff the answer was 2xx.
C6_Original ==
    (sfn = "TestWebhook" /\ Returned) =>
        /\ Len(wire) = 1
        /\ retErr = NoErr <=> Is2xx(lastResp)

\* C6 amended: TestWebhook issues at most one POST and never retries: exactly
\* one when the URL is non-empty and a request can be built from it, none
\* otherwise; it returns nil iff that POST was issued and answered 2xx.
C6_SingleAttempt ==
    (sfn = "TestWebhook") =>
        /\ Len(wire) <= 1
        /\ attempts = 0 /\ numTries = 0 /\ result.nil
        /\ spc \in {"sending", "done"}
        /\ spc = "sending" => (Len(wire) = 1 /\ lastResp = NoResp)
        /\ Returned =>
              /\ Len(wire) = 1 <=> (webhookURL # EmptyURL /\ ParsesAsURL(webhookURL))
              /\ retErr = NoErr <=> (Len(wire) = 1 /\ Is2xx(lastResp))

\* The single POST was answered 500 and TestWebhook returned that error.
C6_Witness ==
    /\ sfn = "TestWebhook" /\ Returned
    /\ Len(wire) = 1
    /\ lastResp = StatusResp(500)
    /\ retErr = ErrStatus(500)

-----------------------------------------------------------------------------
(* The claims about SearchTabs.                                            *)

SearchReturned == qpc = "done"

StrategyOrder == <<"suggest", "tab-search", "app-search", "embedded-json", "dom">>

NoneYielded == \A i \in 1..Len(tried) : ~tried[i].yielded

\* C4: an empty query, and an empty destination URL, are answered with their
\* error in the call itself: no HTTP request, no attempt, no retry.
C4_ConfigErrorsFirst ==
    /\ (qpc # "idle" /\ opts.query = "") =>
          /\ SearchReturned
          /\ searchErr = ErrEmptyQuery
          /\ requests = <<>> /\ tried = <<>> /\ searchResults = <<>>
    /\ (sfn \in {"SendWithRetry", "Send", "TestWebhook"} /\ webhookURL = EmptyURL) =>
          /\ Returned
          /\ retErr = ErrEmptyURL
          /\ wire = <<>> /\ attempts = 0 /\ numTries = 0 /\ result.nil

\* SearchTabs has rejected an empty query.
C4_Witness == SearchReturned /\ opts.query = "" /\ searchErr = ErrEmptyQuery

\* C7: the strategies attempted are an initial part of the fixed order, only
\* the last one attempted can have yielded a result, a yield ends the search
\* with that result, and the page is fetched after the API endpoints and
\* before the embedded-JSON extraction.
C7_StrictOrder ==
    /\ Len(tried) <= Len(StrategyOrder)
    /\ \A i \in 1..Len(tried) : tried[i].step = StrategyOrder[i]
    /\ \A i \in 1..Len(tried) : tried[i].yielded => i = Len(tried)
    /\ (tried # <<>> /\ tried[Len(tried)].yielded) =>
          (SearchReturned /\ searchErr = NoErr /\ Len(searchResults) >= 1)
    /\ (SearchReturned /\ searchErr = NoErr) =>
          (tried # <<>> /\ tried[Len(tried)].yielded)
    /\ LET nApi == IF ~BuildsAPIRequest(opts) THEN 0
                    ELSE IF Len(tried) < 3 THEN Len(tried) ELSE 3
           fetches == SubSeq(requests, nApi + 1, Len(requests))
       IN  /\ Len(requests) >= nApi
           /\ \A i \in 1..nApi : requests[i] = EndpointNames[i]
           /\ fetches \in {<<>>, <<"proxy">>, <<"direct">>, <<"proxy", "direct">>}
           /\ fetches # <<>> => Len(tried) >= 3
           /\ Len(tried) > 3 => fetches # <<>>

\* Everything before it came back empty and the DOM harvesting yielded.
C7_Witness ==
    /\ SearchReturned
    /\ Len(tried) = 5 /\ tried[5].yielded
    /\ Len(searchResults) >= 1

\* C8 as stated: a SearchTabs that returns an error (for a non-empty query)
\* has been through all the strategies, and the error is "no results".
C8_Original ==
    (SearchReturned /\ opts.query # "" /\ searchErr # NoErr) =>
        /\ searchErr = ErrNoResults
        /\ Len(tried) = Len(StrategyOrder)
        /\ NoneYielded

\* C8 amended: SearchTabs returns an error only when no strategy yielded a
\* result. Errors of the API endpoints, of the proxy and of the embedded-JSON
\* extraction are absorbed; a failed direct page fetch ends the search: its
\* error is returned and neither extraction is attempted. Otherwise the only
\* error is the terminal "no results found".
C8_FailureOnlyWhenEmpty ==
    (SearchReturned /\ opts.query # "") =>
        /\ searchErr \in {NoErr, ErrNoResults, ErrMakingRequest, ErrReadingResponse}
        /\ searchErr # NoErr => (NoneYielded /\ searchResults = <<>> /\ Len(tried) >= 3)
        /\ searchErr = ErrNoResults <=> (Len(tried) = Len(StrategyOrder) /\ NoneYielded)
        /\ searchErr \in {ErrMakingRequest, ErrReadingResponse} <=>
              (Len(tried) = 3 /\ NoneYielded /\ requests[Len(requests)] = "direct")

\* The proxy failed, then the direct fetch failed: its error came back.
C8_Witness ==
    /\ SearchReturned
    /\ requests = <<"suggest", "tab-search", "app-search", "proxy", "direct">>
    /\ searchErr = ErrMakingRequest

-----------------------------------------------------------------------------
(* The claims about filterTopResults.                                      *)

FilterReturned == fpc = "returned"

\* The bucket of a result: its artist, the empty artist as "Unknown".
Bucket(r) == IF r.artist = "" THEN "Unknown" ELSE r.artist

\* The bucket after case normalization.
CaseBucket(r) == ToLower(Bucket(r))

IsChordsType(r) == ToLower(r.type) = "chords"

\* r ranks above o: chords before non-chords, then the higher rating.
RanksAbove(r, o) ==
    \/ IsChordsType(r) /\ ~IsChordsType(o)
    \/ IsChordsType(r) = IsChordsType(o) /\ r.rating > o.rating

\* C9 as stated: no two results returned have the same artist after case
\* normalization.
C9_Original ==
    FilterReturned =>
        \A i, j \in 1..Len(fOut) : i # j => CaseBucket(fOut[i]) # CaseBucket(fOut[j])

\* C9 amended: no two results returned have the same artist (compared as
\* written, the empty artist counting as "Unknown"), and every artist of the
\* input has its entry.
C9_OnePerArtist ==
    FilterReturned =>
        /\ \A i, j \in 1..Len(fOut) : i # j => Bucket(fOut[i]) # Bucket(fOut[j])
        /\ {Bucket(fOut[i]) : i \in 1..Len(fOut)} = {Bucket(fIn[k]) : k \in 1..Len(fIn)}

\* An empty artist and the artist "Unknown" went in, one entry came out.
C9_Witness ==
    /\ FilterReturned
    /\ Len(fIn) = 2 /\ fIn[1].artist = "" /\ fIn[2].artist = "Unknown"
    /\ Len(fOut) = 1

\* C10: every result returned is a candidate of the input, and no candidate
\* of its bucket ranks above it (chords before non-chords, then rating).
C10_MaximalPerBucket ==
    FilterReturned =>
        \A i \in 1..Len(fOut) :
            /\ \E k \in 1..Len(fIn) : fIn[k] = fOut[i]
            /\ \A k \in 1..Len(fIn) :
                  Bucket(fIn[k]) = Bucket(fOut[i]) => ~RanksAbove(fIn[k], fOut[i])

\* Tab/4.9 came first and Chords/3.0 second for one artist: Chords came out.
C10_Witness ==
    /\ FilterReturned
    /\ Len(fIn) = 2
    /\ fIn[1].artist = "Abba" /\ fIn[1].type = "Tab" /\ fIn[1].rating = 49
    /\ fIn[2].artist = "Abba" /\ fIn[2].type = "Chords" /\ fIn[2].rating = 30
    /\ fOut = <<fIn[2]>>

-----------------------------------------------------------------------------
(* The claims about the identifiers SearchTabs returns.                    *)

IDs(rs) == {rs[i].id : i \in 1..Len(rs)}

\* The strategy that yielded the results of a successful search.
YieldedBy == IF tried # <<>> /\ tried[Len(tried)].yielded THEN tried[Len(tried)].step
             ELSE "none"

\* C11 as stated: the list a successful SearchTabs returns holds no two
\* results with the same identifier, whichever strategy it came from.
C11_Original ==
    (SearchReturned /\ searchErr = NoErr) =>
        Cardinality(IDs(searchResults)) = Len(searchResults)

\* C11 amended: the list a successful SearchTabs returns holds no two results
\* of the same artist bucket; when it came from the DOM harvesting it holds no
\* two results with the same identifier either. Results of the API shapes and
\* of the embedded JSON are not compared by identifier.
C11_UniquePerArtist ==
    (SearchReturned /\ searchErr = NoErr) =>
        /\ \A i, j \in 1..Len(searchResults) :
              i # j => Bucket(searchResults[i]) # Bucket(searchResults[j])
        /\ YieldedBy = "dom" => Cardinality(IDs(searchResults)) = Len(searchResults)

\* The DOM harvesting yielded two artists' entries, with different identifiers.
C11_Witness ==
    /\ SearchReturned /\ searchErr = NoErr
    /\ YieldedBy = "dom"
    /\ Len(searchResults) = 2
    /\ IDs(searchResults) = {"101", "103"}

-----------------------------------------------------------------------------
(* The claims about DetectKey.                                             *)

ConvReturned(fn) == cpc = "returned" /\ cfn = fn

\* The root note of a spelling: its first character and a # or b right after it.
RootOf(chord) ==
    IF chord = <<>> THEN <<>>
    ELSE IF Len(chord) >= 2 /\ chord[2] \in {"#", "b"} THEN SubSeq(chord, 1, 2)
    ELSE SubSeq(chord, 1, 1)

HasValidRoot(chord) == chord # <<>> /\ RootOf(chord) \in validRoots

\* C12: DetectKey returns the empty string for the empty list; for a non-empty
\* list it returns a non-empty key iff some chord has a valid root, and the
\* key is then the root of such a chord, with "m" appended or not.
C12_KeyIffValidRoot ==
    ConvReturned("DetectKey") =>
        /\ cIn = <<>> => cOut = <<>>
        /\ cIn # <<>> => (cOut # <<>> <=> \E i \in 1..Len(cIn) : HasValidRoot(cIn[i]))
        /\ cOut # <<>> =>
              \E i \in 1..Len(cIn) :
                  /\ HasValidRoot(cIn[i])
                  /\ cOut \in {RootOf(cIn[i]), RootOf(cIn[i]) \o <<"m">>}

\* An invalid root next to a valid one: the key is the valid one's.
C12_Witness ==
    /\ ConvReturned("DetectKey")
    /\ cIn = << <<"H">>, <<"A", "m">> >>
    /\ cOut = <<"A", "m">>

-----------------------------------------------------------------------------
(* The claims about Convert and ValidateTab.                               *)

\* A field the conversion requires is empty.
MissingField(tab) == tab.SongName = <<>> \/ tab.ArtistName = <<>> \/ tab.Content = <<>>

\* C13 as stated: Convert on a tab whose title, artist or content is empty
\* returns an error and no ConversionResult.
C13_Original ==
    (ConvReturned("Convert") /\ ~cIn.nil /\ MissingField(cIn)) =>
        (cOut.err # NoErr /\ cOut.result.nil)

\* C13 amended: the three fields are checked by ValidateTab, which the handler
\* calls before Convert: the handler answers a tab with an empty title, artist
\* or content with the validation error and no document, and produces a
\* document exactly when all three are non-empty. Convert itself refuses only
\* the nil tab and converts whatever else it is given.
C13_ValidatedBeforeConvert ==
    /\ ConvReturned("TabHandler.Handle") =>
          /\ MissingField(cIn) =>
                /\ cOut.status = 400
                /\ cOut.details \in {ErrRequired.SongName, ErrRequired.ArtistName, ErrRequired.Content}
                /\ cOut.result.nil
          /\ ~MissingField(cIn) =>
                (cOut.status = 200 /\ ~cOut.result.nil /\ cOut.result.OnSongFormat # <<>>)
    /\ ConvReturned("Convert") =>
          /\ cOut.err # NoErr <=> cIn.nil
          /\ cOut.result.nil <=> cIn.nil

\* The handler refused a tab that has a title and an artist and no content.
C13_Witness ==
    /\ ConvReturned("TabHandler.Handle")
    /\ cIn.SongName # <<>> /\ cIn.ArtistName # <<>> /\ cIn.Content = <<>>
    /\ cOut.status = 400 /\ cOut.details = ErrRequired.Content /\ cOut.result.nil

\* The spellings between the [ch] and [/ch] tags of content, from position i
\* on: a root, an optional quality and extension, an optional /bass.
RECURSIVE Annotations(_, _)
Annotations(content, i) ==
    IF i > Len(content) THEN <<>>
    ELSE IF ~HasPrefixAt(content, chOpen, i) THEN Annotations(content, i + 1)
    ELSE LET from == i + Len(chOpen)
             e == from + PrefixLen(SubSeq(content, from, Len(content)), {"["}, FALSE)
             spelling == SubSeq(content, from, e - 1)
         IN  IF HasPrefixAt(content, chClose, e)
                /\ (MatchSpelling(spelling) \/ chordTokenRegex(spelling))
             THEN <<spelling>> \o Annotations(content, e + Len(chClose))
             ELSE Annotations(content, i + 1)

\* The spellings of chords in the order of their first occurrence.
RECURSIVE FirstOccurrences(_, _)
FirstOccurrences(chords, seen) ==
    IF chords = <<>> THEN <<>>
    ELSE IF Head(chords) \in seen THEN FirstOccurrences(Tail(chords), seen)
    ELSE <<Head(chords)>> \o FirstOccurrences(Tail(chords), seen \cup {Head(chords)})

\* C14: the chord metadata of Convert agrees with the annotations of the
\* content: ChordCount is their number, Chords their spellings in the order of
\* first occurrence, and every annotation [ch]X[/ch] is [X] in the document.
C14_Original ==
    (ConvReturned("Convert") /\ ~cIn.nil) =>
        LET found == Annotations(cIn.Content, 1)
        IN  /\ cOut.result.ChordCount = Len(found)
            /\ cOut.result.Chords = FirstOccurrences(found, {})
            /\ \A k \in 1..Len(found) :
                  stringsContains(cOut.result.OnSongFormat, <<"[">> \o found[k] \o <<"]">>)

\* C16: ValidateTab returns nil iff title, artist and content are all
\* non-empty, and otherwise the error of the first empty field in the order
\* title, artist, content.
C16_FirstFailingField ==
    ConvReturned("ValidateTab") =>
        /\ cOut = NoErr <=> ~MissingField(cIn)
        /\ cIn.SongName = <<>> => cOut = ErrRequired.SongName
        /\ (cIn.SongName # <<>> /\ cIn.ArtistName = <<>>) => cOut = ErrRequired.ArtistName
        /\ (cIn.SongName # <<>> /\ cIn.ArtistName # <<>> /\ cIn.Content = <<>>) =>
              cOut = ErrRequired.Content

\* Artist and content are both empty: the artist is the one reported.
C16_Witness ==
    /\ ConvReturned("ValidateTab")
    /\ cIn.SongName # <<>> /\ cIn.ArtistName = <<>> /\ cIn.Content = <<>>
    /\ cOut = ErrRequired.ArtistName

-----------------------------------------------------------------------------
(* The claims about plain chord lines.                                     *)

\* line with every white-space-delimited token in brackets where it stands.
RECURSIVE WrappedInPlace(_)
WrappedInPlace(line) ==
    IF line = <<>> THEN <<>>
    ELSE IF Head(line) \in WhiteSpace THEN <<Head(line)>> \o WrappedInPlace(Tail(line))
    ELSE LET w == PrefixLen(line, WhiteSpace, FALSE)
         IN  <<"[">> \o SubSeq(line, 1, w) \o <<"]">>
             \o WrappedInPlace(SubSeq(line, w + 1, Len(line)))

\* C15: without [ch] markers, a non-blank line that is no label and whose
\* tokens are all chords comes back with each token in brackets at its own
\* position and its white space as it was, whatever the tokens are.
C15_Original ==
    /\ ConvReturned("wrapPlainChordLines") =>
          LET lines == stringsSplit(cIn)
              wrapped == stringsSplit(cOut)
          IN  /\ Len(wrapped) = Len(lines)
              /\ \A i \in 1..Len(lines) :
                    IsChordLine(lines[i]) => wrapped[i] = WrappedInPlace(lines[i])
    /\ (ConvReturned("formatContent") /\ IsChordLine(cIn)) =>
          cOut = stringsTrimSpace(WrappedInPlace(cIn))

-----------------------------------------------------------------------------
(* The claims about manually entered content.                              *)

\* The second line of doc, where Convert and FormatManualContent write the
\* artist.
ArtistLine(doc) == stringsSplit(doc)[2]

\* doc has none of the three footer lines of Convert.
NoFooter(doc) ==
    /\ ~stringsContains(doc, <<"#", " ", "S", "o", "u", "r", "c", "e", ":">>)
    /\ ~stringsContains(doc, <<"#", " ", "C", "o", "n", "t", "r", "i", "b", "u", "t", "o", "r", ":">>)
    /\ ~stringsContains(doc, <<"#", " ", "R", "a", "t", "i", "n", "g", ":">>)

\* C17 as stated: FormatManualContent called with a blank artist writes
\* "Unknown Artist" as the artist line, and its output has no footer.
C17_Original ==
    ConvReturned("FormatManualContent") =>
        /\ stringsTrimSpace(cIn.artist) = <<>> => ArtistLine(cOut) = UnknownArtist
        /\ NoFooter(cOut)

\* C17 amended: "Unknown Artist" is substituted by FormatHandler.Handle, and
\* only for an artist that is the empty string; FormatManualContent writes the
\* artist it is given, empty or blank included. Neither output has a footer.
C17_HandlerSubstitutesEmptyArtist ==
    /\ ConvReturned("FormatManualContent") =>
          (ArtistLine(cOut) = cIn.artist /\ NoFooter(cOut))
    /\ ConvReturned("FormatHandler.Handle") =>
          IF cIn.title = <<>> THEN cOut.status = 400 /\ cOut.formatted = <<>>
          ELSE /\ cOut.status = 200
               /\ ArtistLine(cOut.formatted) =
                     (IF cIn.artist = <<>> THEN UnknownArtist ELSE cIn.artist)
               /\ NoFooter(cOut.formatted)

\* The handler formatted a request that has a title, chords and no artist.
C17_Witness ==
    /\ ConvReturned("FormatHandler.Handle")
    /\ cIn.title # <<>> /\ cIn.artist = <<>> /\ ExtractChords(cIn.content) # <<>>
    /\ cOut.status = 200 /\ ArtistLine(cOut.formatted) = UnknownArtist

-----------------------------------------------------------------------------
(* The claims about GetTabByID.                                            *)

\* GetTabByID returned after the catalog answered with a status.
TabAnswered == tpc = "returned" /\ tabResp.kind = "response"

\* GetTabByID returned the error that carries the status and the body of the
\* answer, and no tab.
ReturnedStatusError ==
    /\ tabOut.tab.nil
    /\ tabOut.err.kind = "API returned status"
    /\ tabOut.err.code = tabResp.status
    /\ tabOut.err.body = tabResp.body

\* The declared date of the answer does not parse.
DateUnparsable == tabResp.body.decodable /\ ~timeParse(tabResp.body.json.Date).ok

\* C18 as stated: the status error is returned exactly when the status is
\* outside 200..299; a 2xx answer with a decodable body returns the tab, and a
\* date that does not parse is no error and leaves the date zero.
C18_Original ==
    TabAnswered =>
        /\ ReturnedStatusError <=> ~(tabResp.status \in 200..299)
        /\ (tabResp.status \in 200..299 /\ tabResp.body.decodable) =>
              /\ tabOut.err = NoErr /\ ~tabOut.tab.nil
              /\ DateUnparsable => tabOut.tab.Date = ZeroTime

\* C18 amended: the status error is returned exactly when the status is other
\* than 200, so also for 201, 204 and every other 2xx status; a 200 answer
\* with a decodable body returns the tab with the fields of the body, and a
\* date that does not parse is no error and leaves the date zero.
C18_ErrorUnlessStatus200 ==
    TabAnswered =>
        /\ ReturnedStatusError <=> tabResp.status # 200
        /\ (tabResp.status = 200 /\ tabResp.body.decodable) =>
              /\ tabOut.err = NoErr /\ ~tabOut.tab.nil
              /\ tabOut.tab.Content = tabResp.body.json.Content
              /\ DateUnparsable => tabOut.tab.Date = ZeroTime
              /\ ~DateUnparsable => tabOut.tab.Date = timeParse(tabResp.body.json.Date).time

\* A 204 answer with a decodable body was returned as the status error.
C18_Witness ==
    /\ TabAnswered /\ tabResp.status = 204 /\ tabResp.body.decodable
    /\ ReturnedStatusError

-----------------------------------------------------------------------------
(* The claims about the configuration store.                               *)

\* What a read returns of a whole configuration c.
ReadOf(op, c) ==
    CASE op = "Get" -> c
      [] op = "GetURL" -> IF c.Enabled THEN c.URL ELSE ""
      [] op = "IsConfigured" -> c.URL # "" /\ c.Enabled

\* c is a configuration as NewConfigStore, Clear or a whole Save leaves it.
WholeConfig(c) ==
    \/ c = ZeroConfig
    \/ ~c.nil /\ c.CreatedAt >= 1 /\ c.UpdatedAt >= c.CreatedAt

\* Goroutine p is in a read.
Reading(p) == procs[p].op \in {"Get", "GetURL", "IsConfigured"} /\ procs[p].pc # "idle"

\* Goroutine p has read and still holds the read lock.
ReadDone(p) == Reading(p) /\ procs[p].pc = "release"

\* C19: whatever Save, Clear, Get, GetURL and IsConfigured calls overlap, a
\* read returns what it returns of one whole configuration, the one stored
\* while it held the lock, which is the one before or the one after any Save
\* that overlaps it: URL, enabled flag and timestamps are never taken from two
\* configurations, and a Save that is half done is never seen.
C19_ReadsSeeWholeConfig ==
    /\ WholeConfig(storeConfig)
    /\ mu.writer # 0 => mu.readers = {}
    /\ \A p \in Procs :
          /\ (Reading(p) /\ procs[p].pc # "called") => p \in mu.readers
          /\ ReadDone(p) => procs[p].ret = ReadOf(procs[p].op, storeConfig)

\* A Get returns a saved configuration while a Save of another goroutine waits
\* for the lock.
C19_Witness ==
    \E p, q \in Procs :
        /\ ReadDone(p) /\ procs[p].op = "Get" /\ procs[p].ret.UpdatedAt > procs[p].ret.CreatedAt
        /\ procs[q].op = "Save" /\ procs[q].pc = "called"
        /\ procs[q].arg.URL # procs[p].ret.URL

-----------------------------------------------------------------------------
(* The claims about what SendWithRetry retries.                            *)

\* C20: in SendWithRetry an attempt whose request can be built issues a POST,
\* and every answer to it other than a 2xx status, a transport error or a
\* status of any other class, is handed to the retry loop and not returned;
\* the retry loop starts another attempt unless the retry ceiling is reached
\* or the wait would pass the time budget, and that attempt issues the next
\* POST; an attempt whose request cannot be built ends the invocation, with
\* one attempt counted, no POST and no retry.
C20_FailuresAreRetried ==
    /\ [][(SWR /\ spc = "op" /\ ParsesAsURL(webhookURL)) =>
             /\ Len(wire') = Len(wire) + 1
             /\ ~Is2xx(lastResp') =>
                   /\ spc' = "backoff"
                   /\ opErr' \in {ErrAttemptFailed(attempts'),
                                  ErrAttemptStatus(attempts', lastResp'.code)}
                   /\ result' = NilResult]_vars
    /\ [][(SWR /\ spc = "backoff") =>
             IF RetriesExhausted(numTries) THEN spc' = "done"
             ELSE \/ spc' = "op" /\ ~OverBudget(elapsed, elapsed' - elapsed)
                  \/ /\ spc' = "done"
                     /\ \E next \in RandomizedIntervals(currentInterval) :
                           OverBudget(elapsed, next)]_vars
    /\ [][(SWR /\ spc = "op" /\ ~ParsesAsURL(webhookURL)) =>
             /\ spc' = "done"
             /\ attempts' = 1 /\ numTries' = 0 /\ wire' = <<>>
             /\ retErr' = ErrCreatingRequest]_vars
    /\ \A n \in 0..maxRetries :
          (SWR /\ spc = "op" /\ ParsesAsURL(webhookURL) /\ Len(wire) = n)
              ~> (SWR /\ Len(wire) = n + 1)

\* A first POST was answered 404 and the second attempt is about to start.
C20_Witness ==
    /\ SWR /\ spc = "op"
    /\ lastResp = StatusResp(404)
    /\ Len(wire) = 1 /\ attempts = 1 /\ numTries = 1

-----------------------------------------------------------------------------
(* The claims about the headers of a delivery.                             *)

\* C21: all POSTs of one SendWithRetry invocation carry the same
\* X-Delivery-ID, which is the delivery_id of the returned result, and the
\* n-th POST carries X-Attempt = n, so that the X-Attempt of the last POST is
\* the attempts field of the result.
C21_StableIDCountedAttempts ==
    SWR =>
        /\ \A k \in 1..Len(wire) : wire[k].id = deliveryID /\ wire[k].attempt = k
        /\ (Returned /\ ~result.nil) =>
              /\ result.delivery_id = deliveryID
              /\ wire # <<>> => wire[Len(wire)].attempt = result.attempts

\* A delivery that succeeded at the third POST.
C21_Witness ==
    /\ SWR
    /\ Returned
    /\ Len(wire) = 3
    /\ result.success
    /\ result.attempts = 3
    /\ wire[3] = [id |-> result.delivery_id, attempt |-> 3]

-----------------------------------------------------------------------------
(* The claims about the markup-fetch strategy.                             *)

\* A request of the search went to target.
Issued(target) == \E k \in 1..Len(requests) : requests[k] = target

\* C22: in the markup-fetch strategy a configured proxy is asked first; the
\* direct GET is issued iff no proxy is configured or the proxy attempt failed
\* (transport error, undecodable reply, status other than "ok"), and a proxy
\* failure does not end the search.
C22_ProxyThenDirect ==
    /\ [][(qpc = "api" /\ qpc' \notin {"api", "done"}) =>
             qpc' = IF flareSolverrURL # NoProxy THEN "proxy" ELSE "direct"]_vars
    /\ [][qpc = "proxy" =>
             /\ requests' = Append(requests, "proxy")
             /\ IF proxyErr' # NoErr
                THEN qpc' = "direct" /\ searchErr' = NoErr /\ searchResults' = <<>>
                ELSE qpc' = "done"]_vars
    /\ [][qpc = "direct" => requests' = Append(requests, "direct")]_vars
    /\ [](Issued("proxy") => flareSolverrURL # NoProxy)
    /\ [](Issued("direct") =>
             \/ flareSolverrURL = NoProxy
             \/ /\ proxyErr # NoErr
                /\ Len(requests) >= 2
                /\ requests[Len(requests) - 1] = "proxy"
                /\ requests[Len(requests)] = "direct")
    /\ []((qpc = "done" /\ Issued("proxy") /\ ~Issued("direct")) => proxyErr = NoErr)

\* The proxy's reply could not be decoded, and the direct GET found results.
C22_Witness ==
    /\ qpc = "done"
    /\ flareSolverrURL = ProxyURL
    /\ proxyErr = Err("decoding FlareSolverr response", 0, 0)
    /\ Issued("proxy")
    /\ requests[Len(requests)] = "direct"
    /\ searchErr = NoErr
    /\ searchResults # <<>>

-----------------------------------------------------------------------------
(* The claims about the key of a chord list and of a tab.                  *)

\* The chords of the list on the root r.
ChordsOn(chords, r) == {i \in 1..Len(chords) : HasValidRoot(chords[i]) /\ RootOf(chords[i]) = r}

\* The spelling says minor: it has an "m" and no "maj", whatever the case.
SpelledMinor(chord) ==
    /\ stringsContains(stringsToLower(chord), <<"m">>)
    /\ ~stringsContains(stringsToLower(chord), <<"m", "a", "j">>)

\* r occurs in the list, and more often than any other root.
StrictlyMostCommon(chords, r) ==
    /\ ChordsOn(chords, r) # {}
    /\ \A o \in validRoots \ {r} :
          Cardinality(ChordsOn(chords, o)) < Cardinality(ChordsOn(chords, r))

\* C23: when one root has strictly the highest count, DetectKey returns that
\* root, with "m" appended iff strictly more of the chords on it are spelled
\* minor than not; an equal split gives the bare root. No other outcome is
\* possible for such a list, whatever the order of the map.
C23_StrictMajorityKey ==
    ConvReturned("DetectKey") =>
        \A r \in validRoots :
            StrictlyMostCommon(cIn, r) =>
                LET minor == {i \in ChordsOn(cIn, r) : SpelledMinor(cIn[i])}
                IN  cOut = IF Cardinality(minor) > Cardinality(ChordsOn(cIn, r) \ minor)
                           THEN r \o <<"m">>
                           ELSE r

\* [Am, Am, C, F] gives "Am".
C23_Witness ==
    /\ ConvReturned("DetectKey")
    /\ cIn = << <<"A", "m">>, <<"A", "m">>, <<"C">>, <<"F">> >>
    /\ cOut = <<"A", "m">>


UnknownKey == <<"U", "n", "k", "n", "o", "w", "n">>

\* doc has the line "Key: " followed by key.
HasKeyLine(doc, key) ==
    \E i \in 1..Len(stringsSplit(doc)) :
        stringsSplit(doc)[i] = <<"K", "e", "y", ":", " ">> \o key

\* doc has a line that begins with "Key: ".
HasSomeKeyLine(doc) ==
    \E i \in 1..Len(stringsSplit(doc)) :
        HasPrefixAt(stringsSplit(doc)[i], <<"K", "e", "y", ":", " ">>, 1)

\* C24: Convert takes the key from the declared tonality when that is present
\* and not "undefined", otherwise from DetectKey over the extracted chords,
\* otherwise "Unknown"; DetectedKey is never empty, and the document has the
\* line "Key: <key>" iff the key is not "Unknown".
C24_KeyResolution ==
    (ConvReturned("Convert") /\ ~cIn.nil) =>
        LET declared == cIn.TonalityName
            key == cOut.result.DetectedKey
        IN  /\ key # <<>>
            /\ IF declared # <<>> /\ declared # <<"u", "n", "d", "e", "f", "i", "n", "e", "d">>
               THEN key = declared
               ELSE \E k \in DetectKey(ExtractChords(cIn.Content)) :
                       key = IF k # <<>> THEN k ELSE UnknownKey
            /\ IF key # UnknownKey
               THEN HasKeyLine(cOut.result.OnSongFormat, key)
               ELSE ~HasSomeKeyLine(cOut.result.OnSongFormat)

\* The tonality is "undefined" and the chords say A minor.
C24_Witness ==
    /\ ConvReturned("Convert")
    /\ ~cIn.nil
    /\ cIn.TonalityName = <<"u", "n", "d", "e", "f", "i", "n", "e", "d">>
    /\ cOut.result.DetectedKey = <<"A", "m">>
    /\ HasKeyLine(cOut.result.OnSongFormat, <<"A", "m">>)

-----------------------------------------------------------------------------
(* The claims about the device identifier.                                 *)

\* C25: within one process every authenticated catalog request, a tab fetch
\* or an API search, carries the same X-UG-CLIENT-ID, and its X-UG-API-KEY is
\* computed from that identifier.
C25_Original ==
    \A a, b \in authWire :
        /\ a.clientID = b.clientID
        /\ a.apiKey.md5[1] = a.clientID

-----------------------------------------------------------------------------
(* The claims about the send-tab operation.                                *)

\* The stored configuration names no destination: its URL is empty (as after
\* Clear) or it is disabled.
NoDestination == storeConfig.URL = "" \/ ~storeConfig.Enabled

\* C26: SendTab delivers only to the configured and enabled destination.
\* When the stored configuration has an empty URL or is disabled, SendTab
\* answers with an error and no POST is issued; a request with an empty
\* title or content is answered with an error before any delivery attempt;
\* and every POST of SendTab goes to the stored URL.
C26_OnlyToEnabledDestination ==
    /\ [](reply.pc # "none" /\ NoDestination =>
             reply.pc = "replied" /\ reply.status = 400 /\ wire = <<>> /\ attempts = 0)
    /\ [][\A t \in {"", "Song"}, c \in {"", "[G]la"}, id \in DeliveryIDs :
             SendTab([Title |-> t, Content |-> c], id) /\ (t = "" \/ c = "") =>
                 /\ reply' = [pc |-> "replied", status |-> 400,
                              error |-> "title and content are required"]
                 /\ wire' = <<>> /\ attempts' = 0 /\ spc' = "idle"]_vars
    /\ [](reply.pc # "none" /\ wire # <<>> =>
             webhookURL = storeConfig.URL /\ storeConfig.Enabled /\ webhookURL # "")

\* SendTab was asked to send a song while the stored configuration had a URL
\* and was disabled.
C26_Witness ==
    /\ reply = [pc |-> "replied", status |-> 400,
                error |-> "webhook not configured or not enabled"]
    /\ storeConfig.URL = GoodURL /\ ~storeConfig.Enabled
    /\ wire = <<>>

-----------------------------------------------------------------------------
(* The claims about a Save that fails, and about the timestamps.           *)

\* Goroutine p is about to return from op with the mutex still held.
Returning(p, op) == procs[p].pc = "release" /\ procs[p].op = op

\* C27: a Save that returns an error, for a nil config or for a file that
\* cannot be persisted, leaves in effect the configuration that was in
\* effect before the call.
C27_Original ==
    /\ [](\A p \in DOMAIN procs :
             Returning(p, "Save") /\ procs[p].err # NoErr => storeConfig = procs[p].was)
    /\ [][\A p \in DOMAIN procs :
             procs'[p] # procs[p] /\ procs'[p].err = Err("config cannot be nil", 0, 0) =>
                 storeConfig' = storeConfig]_vars


\* C28: while no Clear intervenes, the stored CreatedAt is the one the first
\* Save set and it never changes; every Save sets UpdatedAt to the time it
\* read, which is never earlier than CreatedAt; the first Save after a Clear
\* (or on the empty config) sets CreatedAt to the time it read.
C28_CreatedOnceUpdatedAlways ==
    /\ [](storeConfig.CreatedAt <= storeConfig.UpdatedAt)
    /\ [][\A p \in DOMAIN procs :
             procs[p].pc = "timestamps" /\ procs'[p].pc = "store" =>
                 /\ IF storeConfig.CreatedAt = 0
                    THEN clock <= procs'[p].arg.CreatedAt /\ procs'[p].arg.CreatedAt <= clock'
                    ELSE procs'[p].arg.CreatedAt = storeConfig.CreatedAt
                 /\ procs'[p].arg.UpdatedAt = clock' /\ clock <= clock']_vars
    /\ [][\A p \in DOMAIN procs :
             procs[p].pc = "store" /\ procs'[p].pc = "persist" =>
                 /\ storeConfig'.CreatedAt = procs[p].arg.CreatedAt
                 /\ storeConfig'.UpdatedAt = procs[p].arg.UpdatedAt
                 /\ storeConfig'.UpdatedAt = clock
                 /\ storeConfig'.CreatedAt # 0
                 /\ storeConfig.CreatedAt # 0 =>
                        storeConfig'.CreatedAt = storeConfig.CreatedAt]_vars
    /\ [][storeConfig.CreatedAt # 0 /\ storeConfig'.CreatedAt # storeConfig.CreatedAt =>
             /\ storeConfig'.CreatedAt = 0
             /\ \E p \in DOMAIN procs : procs[p].pc = "clear" /\ procs'[p].pc = "remove"]_vars

\* A Save at a later time has returned without error on a configuration
\* created earlier: CreatedAt is the old one, UpdatedAt the new one.
C28_Witness ==
    /\ storeConfig.CreatedAt = 1 /\ storeConfig.UpdatedAt = 2
    /\ \E p \in DOMAIN procs :
          /\ Returning(p, "Save") /\ procs[p].err = NoErr
          /\ procs[p].was.CreatedAt = 1 /\ procs[p].was.UpdatedAt = 1

-----------------------------------------------------------------------------
(* The claims about the identifiers of distinct deliveries.                *)

\* C29: two invocations of SendWithRetry on one client use different
\* delivery identifiers: an invocation that follows another one draws an
\* identifier other than that of the one before.
C29_Original ==
    [][(/\ SendQuiet /\ sfn = "SendWithRetry" /\ deliveryID # 0
        /\ sfn' = "SendWithRetry" /\ deliveryID' # 0 /\ spc' = "op" /\ attempts' = 0)
          => deliveryID' # deliveryID]_vars

-----------------------------------------------------------------------------
(* The claims about the path of the configuration file.                    *)

\* C30: for every non-empty configured file path, also one shorter than or
\* not ending in "/webhook-config.json", the persisting step of Save ends by
\* returning nil or an error and never with a runtime panic.
C30_Original ==
    ConvReturned("persistToFile") /\ cIn # <<>> => cOut.outcome \in {"nil", "error"}

====
